---- MODULE Spec2Model ----
(***************************************************************************)
(* Execution side of the arbitrage bot:                                    *)
(*   - MasterAgentOrchestrator (agents/master_agent_orchestrator.py) with  *)
(*     the ADOMFlashbotsIntegration pipeline it drives                     *)
(*     (backend/Arb Bot/adom_flashbots_integration.py);                    *)
(*   - MEVProtection (backend/src/modules/mev_protection.py);              *)
(*   - ATOMMEVProtection._submit_with_rbf                                  *)
(*     (backend/Arb Bot/atom-mev-protection.py).                           *)
(* Detection side: AgentMEVCalculator (agents/agent_mev_calculator.py)     *)
(* and the integer swap outputs of ATOMDexMonitor and ATOMPathfinder.      *)
(* Every coroutine is cut at its suspension points (await of a sleep):     *)
(* the code between two suspension points is one action.                   *)
(***************************************************************************)
EXTENDS Integers, Sequences, FiniteSets, Bags, TLC

VARIABLES
    \* ---- MasterAgentOrchestrator ----
    execution_queue,      \* List[ArbitrageOpportunity], head = index 1
    active_executions,    \* List[Dict]: entries [id]
    coordination_cycles,  \* master_metrics['coordination_cycles']
    processed,            \* master_metrics['total_opportunities_processed']
    successful,           \* master_metrics['successful_executions']
    agent_statuses,       \* name -> [status, error_count, total_operations]
    ready,                \* tasks create_task made that have not run yet (FIFO)
    running,              \* bag of started, unfinished executions [kind, pc, id, sim]
    last_result,          \* adom_result of the execution that completed last
    spawnLog,             \* tickets in the order create_task was called
    nextTicket,           \* enqueue counter: the next opportunity's ticket
    dropped,              \* opportunities the last cycle detected and did not queue
    now,                  \* int(time.time()), from an arbitrary origin
    \* ---- ADOMFlashbotsIntegration ----
    submitted_bundles,    \* bundle hashes, in dict insertion order
    bundle_results,       \* bundle hash -> "none" | "included" | "not_included"
    bundles_submitted,
    bundles_included,
    total_profit,
    \* ---- MEVProtection ----
    mev_is_running,       \* MEVProtection.is_running
    bundles,              \* FlashbotsBundle objects: id -> [status, target_block, bundle_hash]
    pending_bundles,      \* dict bundle_hash -> bundle, as [hash, bundle] in insertion order
    bundle_history,       \* list of bundles (ids), oldest first
    mev_calls,            \* execute_protected_trade calls: id -> [pc, wake, start_time, outcome]
    monitor,              \* the _monitor_bundles task: [pc, wake]
    clock,                \* time.time() in ms since the first observed instant
    epoch,                \* int(time.time()) at that instant
    \* ---- ATOMMEVProtection._submit_with_rbf ----
    rbf_pc,               \* "idle" | "sending" | "waiting" | "returned"
    tx,                   \* the transaction dict: [type, gas_price, priority_fee]
    original_gas_price,
    attempts,
    elapsed,              \* seconds since _wait_for_tx_with_rbf took start_time
    sendLog,              \* send_raw_transaction calls: [gas_price, priority_fee, raised]
    rbf_result,           \* "none" | "receipt" | "None"
    rbf_attempts,         \* metrics['rbf_attempts']
    pending_txs,          \* keys of pending_txs (a tx hash is its signed content)
    dropped_txs,
    confirmed_txs,
    mined_sends,          \* sends (positions in sendLog) for which a receipt was obtained
    \* ---- AgentMEVCalculator ----
    min_profit_threshold, \* Decimal(config 'min_profit_eth')
    slippage_tolerance,   \* Decimal(config 'slippage_tolerance')
    pool_states,          \* dict pool_id -> PoolState, as pools in insertion order
    opportunities_cache,  \* the list the last scan returned
    optimal_inputs,       \* per pair of the last scan: [pool_a, pool_b, optimal_input]
    pools_data,           \* argument of the last scan
    scan_time,            \* time.time() of the last scan
    \* ---- swap output functions ----
    swap_pool,            \* the pool under test: [reserve_in, reserve_out, fee_rate, pool_type]
    swap_quotes,          \* outputs computed so far, one record per amount_in
    \* ---- DEXMonitor ----
    dex_is_running,       \* DEXMonitor.is_running
    price_cache,          \* dict dex -> dict pair -> PriceData
    last_update,          \* dict "<dex>_<pair>" -> time.time(), keyed <<dex, pair>>
    dex_tasks,            \* the tasks start() created: name -> [pc, pair, wake]
    dex_now,              \* time.time() in seconds since the monitor was constructed
    snapshot,             \* the dict get_latest_prices returned last: [held, keys, taken, time]
    \* ---- ATOMDexMonitor price book ----
    price_book,           \* dict pair_key -> SortedDict quote_key -> PriceQuote
    quote_cache,          \* dict <<pair_key, quote_key>> -> PriceQuote
    delivered,            \* the updates delivered so far: [store, key, stamp]
    \* ---- MasterAgentOrchestrator health monitoring ----
    last_activity,        \* AgentStatus.last_activity of each agent
    health_now,           \* time.time() in seconds since the orchestrator was constructed
    health_warnings,      \* the warnings the last monitor_agent_health call logged
    health_checks,        \* monitor_agent_health calls so far
    \* ---- ArbitrageEngine ----
    eng_is_running,       \* ArbitrageEngine.is_running
    active_trades,        \* set of trade ids
    sem_value,            \* trade_semaphore._value
    sem_waiters,          \* trade_semaphore._waiters: trades, first come first
    trades,               \* the _execute_arbitrage tasks: index -> [pc, id]
    eng_loop,             \* _run_arbitrage_loop: [pc, tasks]
    eng_stop,             \* the stop() call: "none" | "stopping" | "polling" | "returned"
    eng_now,              \* int(time.time() * 1000) since construction
    trades_executed,
    \* ---- ConfigManager ----
    config,               \* ConfigManager.config: [network, trading, held]; held = an object exists
    config_before,        \* self.config when the last call began
    config_raised,        \* the last call raised
    \* ---- ArbitrageEngine.start with its components ----
    eng_start,            \* the start() call: "none" | "dex_gather" | "loop_sleeping" | "returned"
    pathfinding_is_running, \* PathfindingEngine.is_running
    scanned,              \* the loop has called find_opportunities with price data
    \* ---- ADOMFlashbotsIntegration: direct calls and the monitoring loop ----
    adom_calls,           \* execute_mev_opportunity calls: index -> [pc, kind, submitted]
    adom_monitor,         \* start_adom_monitoring: [pc, keys, at, passes]
    adom_credits,         \* per bundle hash: times its expected_profit was added to total_profit
    \* ---- CoWIntegration ----
    cow_server,           \* the CoW API's state of each order
    order_status,         \* CoWOrder.status of each order object
    active_orders,        \* keys of active_orders
    order_history,        \* order_history, as order ids
    cow_monitor,          \* _monitor_orders: [pc, todo, response]
    cow_cancels,          \* cancel_order calls, one per order: [pc, response]
    cow_passes,           \* passes _monitor_orders has begun
    \* ---- ATOMCoWIntegration ----
    monitored_orders,     \* keys of monitored_orders
    executed_orders,      \* executed_orders
    arbitrages_found,     \* metrics['arbitrages_found']
    cow_executions,       \* runs of _execute_cow_arbitrage per order uid
    open_orders_loop,     \* _monitor_open_orders: [pc, todo, cycles]
    \* ---- ATOMDexMonitor scan ----
    opportunities_found,  \* metrics['opportunities_found']
    last_scan             \* last pass of the scan: [done, book, executed]

orchVars == <<execution_queue, active_executions, coordination_cycles, processed,
              successful, agent_statuses, ready, running, last_result, spawnLog,
              nextTicket,
              dropped, now>>
adomVars == <<submitted_bundles, bundle_results,
              bundles_submitted, bundles_included, total_profit>>

mevVars == <<mev_is_running, bundles, pending_bundles, bundle_history, mev_calls,
             monitor, clock, epoch>>
rbfVars == <<rbf_pc, tx, original_gas_price, attempts, elapsed, sendLog, rbf_result,
             rbf_attempts, pending_txs, dropped_txs, confirmed_txs, mined_sends>>

calcVars == <<min_profit_threshold, slippage_tolerance, pool_states,
              opportunities_cache, optimal_inputs, pools_data, scan_time>>
swapVars == <<swap_pool, swap_quotes>>
dexVars == <<dex_is_running, price_cache, last_update, dex_tasks, dex_now, snapshot>>
bookVars == <<price_book, quote_cache, delivered>>
healthVars == <<last_activity, health_now, health_warnings, health_checks>>
engVars == <<eng_is_running, active_trades, sem_value, sem_waiters, trades, eng_loop,
             eng_stop, eng_now, trades_executed>>

cfgVars == <<config, config_before, config_raised>>

startVars == <<eng_start, pathfinding_is_running, scanned>>

adomLoopVars == <<adom_calls, adom_monitor, adom_credits>>

cowVars == <<cow_server, order_status, active_orders, order_history, cow_monitor, cow_cancels, cow_passes>>

cowArbVars == <<monitored_orders, executed_orders, arbitrages_found, cow_executions, open_orders_loop>>

arbScanVars == <<opportunities_found, last_scan>>

vars == <<orchVars, adomVars, mevVars, rbfVars, calcVars, swapVars, dexVars, bookVars, healthVars, engVars, cfgVars, startVars, adomLoopVars, cowVars, cowArbVars, arbScanVars>>

-----------------------------------------------------------------------------
(* Bounds of the model                                                     *)

MaxCycles == 2        \* coordination cycles explored by Spec
MaxTime == 1          \* seconds the clock advances
MaxQueueCycles == 4   \* coordination cycles explored by SpecQueue
MaxBatch == 4         \* opportunities one scan returns in SpecQueue
MaxCompletions == 2   \* executions that run to completion in Spec
MaxQueueCompletions == 1   \* executions that run to completion in SpecQueue

(* Program constants                                                       *)

max_concurrent_executions == 3
QueueLimit == 10
coordination_interval == 5

\* ADOM configuration: config.get('enable_bundle_simulation', True).
enable_bundle_simulation == TRUE

\* Opportunity contents (token pair, DEX pair, optimal input, net profit) the
\* scan can return: two, so that bundles with equal and with different
\* contents both occur.
Kinds == {1, 2}
Agents == {"mev_calculator", "theatom_integration", "adom_flashbots"}

\* ArbitrageOpportunity.execution_priority = int(confidence_score * 100); the
\* orchestrator only queues opportunities with confidence_score > 0.8.
PriorityOf(k) == 80 + k

\* ADOM: expected_profit of the bundle built from an opportunity, in units of
\* 0.01 ETH (the orchestrator only queues net_profit > 0.01).
ProfitOf(k) == 1 + k

\* _generate_bundle_hash: sha256 of the canonical JSON of the transactions,
\* which are built from the opportunity's content only (not from the block
\* number or the time): equal contents give equal hashes.
BundleHashOf(k) == k

-----------------------------------------------------------------------------
(* Helpers                                                                 *)

SeqRange(s) == {s[i] : i \in 1..Len(s)}

\* The lists a scan can return: distinct opportunities, ranked by descending
\* net_profit (find_arbitrage_opportunities sorts its result).
DetectionLists ==
    {s \in UNION {[1..n -> Kinds] : n \in 0..Cardinality(Kinds)} :
        \A i, j \in 1..Len(s) : i < j => ProfitOf(s[i]) > ProfitOf(s[j])}

\* Scans that return up to MaxBatch opportunities of one content (equally
\* ranked pool pairs): the inputs that fill the execution queue.
QueueBatches == {[i \in 1..n |-> 1] : n \in 0..MaxBatch}

-----------------------------------------------------------------------------
(* MasterAgentOrchestrator                                                 *)

\* update_agent_status: status, total_operations and error_count of one agent
\* (last_activity and the moving-average performance_score are not part of
\* the model's state).
UpdateAgentStatus(st, agent, status, error) ==
    [st EXCEPT ![agent] =
        [status |-> status,
         error_count |-> IF error THEN @.error_count + 1 ELSE @.error_count,
         total_operations |-> @.total_operations + 1]]

\* coordinate_opportunity_detection: 'active', then 'idle' with a score.
DetectionStatuses(st) ==
    UpdateAgentStatus(UpdateAgentStatus(st, "mev_calculator", "active", FALSE),
                      "mev_calculator", "idle", FALSE)

\* Step 2 with the capacity test off by one (<= instead of <).
RECURSIVE EnqueueAllOffByOne(_, _, _)
EnqueueAllOffByOne(q, opps, ticket) ==
    IF opps = <<>> THEN [queue |-> q, ticket |-> ticket, dropped |-> 0]
    ELSE IF Len(q) <= QueueLimit
         THEN EnqueueAllOffByOne(Append(q, [ticket |-> ticket, kind |-> Head(opps)]),
                                 Tail(opps), ticket + 1)
         ELSE LET r == EnqueueAllOffByOne(q, Tail(opps), ticket)
              IN  [r EXCEPT !.dropped = @ + 1]

\* run_coordination_cycle step 2: append while len(execution_queue) < 10.
RECURSIVE EnqueueAll(_, _, _)
EnqueueAll(q, opps, ticket) ==
    IF opps = <<>> THEN [queue |-> q, ticket |-> ticket, dropped |-> 0]
    ELSE IF Len(q) < QueueLimit
         THEN EnqueueAll(Append(q, [ticket |-> ticket, kind |-> Head(opps)]),
                         Tail(opps), ticket + 1)
         ELSE LET r == EnqueueAll(q, Tail(opps), ticket)
              IN  [r EXCEPT !.dropped = @ + 1]

\* pop() in place of pop(0): the newest entry is taken.
PopLast(q) == [taken |-> q[Len(q)], rest |-> SubSeq(q, 1, Len(q) - 1)]

\* execution_queue.pop(0): the entry taken and the queue left.
PopNext(q) == [taken |-> Head(q), rest |-> Tail(q)]

\* run_coordination_cycle step 3: the loop condition reads
\* len(active_executions), which create_task does not change.
RECURSIVE DrainQueue(_, _, _)
DrainQueue(q, nActive, spawned) ==
    IF q # <<>> /\ nActive < max_concurrent_executions
    THEN LET p == PopNext(q)
         IN  DrainQueue(p.rest, nActive, Append(spawned, p.taken))
    ELSE [queue |-> q, spawned |-> spawned]

\* One run_coordination_cycle. It has no suspension point (the pool data
\* source returns without waiting), and the tasks an earlier cycle created
\* are started by the event loop before the coordination loop's sleep ends.
\* _coordination_loop sleeps coordination_interval seconds between cycles.
RunCoordinationCycle(opps, maxCycles) ==
    /\ coordination_cycles < maxCycles
    /\ ready = <<>>
    /\ LET enq == EnqueueAll(execution_queue, opps, nextTicket)
           dr  == DrainQueue(enq.queue, Len(active_executions), <<>>)
       IN  /\ coordination_cycles' = coordination_cycles + 1
           /\ agent_statuses' = DetectionStatuses(agent_statuses)
           /\ nextTicket' = enq.ticket
           /\ dropped' = enq.dropped
           /\ execution_queue' = dr.queue
           /\ spawnLog' = spawnLog \o [i \in 1..Len(dr.spawned) |-> dr.spawned[i].ticket]
           /\ ready' = dr.spawned
    /\ now' = now + coordination_interval
    /\ UNCHANGED <<active_executions, processed, successful, running, last_result,
                   adomVars>>
    /\ UNCHANGED <<mevVars, rbfVars, calcVars, swapVars, dexVars, bookVars, healthVars, engVars, cfgVars, startVars, adomLoopVars, cowVars, cowArbVars, arbScanVars>>

\* A running execution moves from one suspension point to the next.
Step(task, pc, sim) ==
    (running (-) SetToBag({task})) (+) SetToBag({[task EXCEPT !.pc = pc, !.sim = sim]})

\* coordinate_opportunity_execution, from the task's first step to the first
\* suspension inside execute_mev_opportunity: the execution id is built from
\* the current second and the opportunity's priority, the entry is appended
\* to active_executions and both agents are marked active. With bundle
\* simulation disabled simulate_bundle returns without suspending and the
\* task suspends inside submit_bundle_to_flashbots instead. The event loop
\* starts tasks in the order they were created.
StartExecution ==
    /\ ready # <<>>
    /\ LET opp == Head(ready)
           id  == <<now, PriorityOf(opp.kind)>>
       IN  /\ active_executions' = Append(active_executions, [id |-> id])
           /\ running' = running (+) SetToBag({
                  [kind |-> opp.kind, id |-> id,
                   pc  |-> IF enable_bundle_simulation THEN "simulating" ELSE "submitting",
                   sim |-> IF enable_bundle_simulation THEN "pending" ELSE "skipped"]})
    /\ ready' = Tail(ready)
    /\ agent_statuses' =
         UpdateAgentStatus(UpdateAgentStatus(agent_statuses, "theatom_integration", "active", FALSE),
                           "adom_flashbots", "active", FALSE)
    /\ UNCHANGED <<execution_queue, coordination_cycles, processed, successful, last_result,
                   spawnLog, nextTicket, dropped, now, adomVars>>
    /\ UNCHANGED <<mevVars, rbfVars, calcVars, swapVars, dexVars, bookVars, healthVars, engVars, cfgVars, startVars, adomLoopVars, cowVars, cowArbVars, arbScanVars>>

\* "Remove from active executions": every entry whose id differs is kept.
RemoveExecution(active, id) == SelectSeq(active, LAMBDA ex : ex.id # id)

\* coordinate_opportunity_execution after execute_mev_opportunity returned
\* adom_result: metrics, agent statuses ('idle'), removal from
\* active_executions.
CompleteExecution(task, success, stage, sim) ==
    /\ processed' = processed + 1
    /\ successful' = IF success THEN successful + 1 ELSE successful
    /\ agent_statuses' =
         UpdateAgentStatus(UpdateAgentStatus(agent_statuses, "theatom_integration", "idle", FALSE),
                           "adom_flashbots", "idle", FALSE)
    /\ active_executions' = RemoveExecution(active_executions, task.id)
    /\ running' = running (-) SetToBag({task})
    /\ last_result' = [success |-> success, stage |-> stage, sim |-> sim]

-----------------------------------------------------------------------------
(* ADOMFlashbotsIntegration                                                *)

\* Step 2 without the "if not simulation['success']: return".
AfterSimulationUnchecked(simSuccess) == "submitting"

\* execute_mev_opportunity step 2: what follows a simulation result.
AfterSimulation(simSuccess) == IF simSuccess THEN "submitting" ELSE "return_simulation"

\* simulate_bundle returned (after its network delay) with success or not;
\* on failure execute_mev_opportunity returns stage 'simulation' and the
\* orchestrator completes the execution as failed.
SimulationReturns(task, simSuccess) ==
    /\ BagIn(task, running)
    /\ task.pc = "simulating"
    /\ LET sim == IF simSuccess THEN "ok" ELSE "failed"
       IN  IF AfterSimulation(simSuccess) = "submitting"
           THEN /\ running' = Step(task, "submitting", sim)
                /\ UNCHANGED <<processed, successful, agent_statuses, active_executions,
                               last_result>>
           ELSE /\ processed < MaxCompletions
                /\ CompleteExecution(task, FALSE, "simulation", sim)
    /\ UNCHANGED <<execution_queue, coordination_cycles, ready, spawnLog, nextTicket, dropped, now, adomVars>>
    /\ UNCHANGED <<mevVars, rbfVars, calcVars, swapVars, dexVars, bookVars, healthVars, engVars, cfgVars, startVars, adomLoopVars, cowVars, cowArbVars, arbScanVars>>

\* submit_bundle_to_flashbots after its network delay: the bundle is tracked
\* under its hash (a dict: a hash already present keeps its position) and
\* counted; execute_mev_opportunity then sleeps 15 s.
SubmitBundle(task) ==
    /\ BagIn(task, running)
    /\ task.pc = "submitting"
    /\ LET h == BundleHashOf(task.kind)
       IN  submitted_bundles' = IF h \in SeqRange(submitted_bundles) THEN submitted_bundles
                                ELSE Append(submitted_bundles, h)
    /\ bundles_submitted' = bundles_submitted + 1
    /\ running' = Step(task, "waiting", task.sim)
    /\ UNCHANGED <<execution_queue, active_executions, coordination_cycles, processed,
                   successful, agent_statuses, ready, last_result, spawnLog, nextTicket, dropped, now, bundle_results,
                   bundles_included, total_profit>>
    /\ UNCHANGED <<mevVars, rbfVars, calcVars, swapVars, dexVars, bookVars, healthVars, engVars, cfgVars, startVars, adomLoopVars, cowVars, cowArbVars, arbScanVars>>

\* check_bundle_inclusion, "Store result": bundle_results[bundle_hash] = result.
StoreResult(results, h, was_included) ==
    [results EXCEPT ![h] = IF was_included THEN "included" ELSE "not_included"]

\* check_bundle_inclusion after the relay's answer: metrics on inclusion,
\* then the result is stored.
InclusionChecked(h, was_included) ==
    /\ bundles_included' = IF was_included THEN bundles_included + 1 ELSE bundles_included
    /\ total_profit' = IF was_included THEN total_profit + ProfitOf(h) ELSE total_profit
    /\ bundle_results' = StoreResult(bundle_results, h, was_included)

\* execute_mev_opportunity step 4, after the 15 s sleep: check_bundle_inclusion
\* finds the hash in submitted_bundles and suspends for the relay's answer.
BeginInclusionCheck(task) ==
    /\ BagIn(task, running)
    /\ task.pc = "waiting"
    /\ BundleHashOf(task.kind) \in SeqRange(submitted_bundles)
    /\ running' = Step(task, "checking", task.sim)
    /\ UNCHANGED <<execution_queue, active_executions, coordination_cycles, processed,
                   successful, agent_statuses, ready, last_result, spawnLog, nextTicket, dropped, now, adomVars>>
    /\ UNCHANGED <<mevVars, rbfVars, calcVars, swapVars, dexVars, bookVars, healthVars, engVars, cfgVars, startVars, adomLoopVars, cowVars, cowArbVars, arbScanVars>>

\* The relay answered: check_bundle_inclusion stores the result, and
\* execute_mev_opportunity returns success = inclusion["included"].
FinishInclusionCheck(task, was_included) ==
    /\ BagIn(task, running)
    /\ task.pc = "checking"
    /\ processed < MaxCompletions
    /\ InclusionChecked(BundleHashOf(task.kind), was_included)
    /\ CompleteExecution(task, was_included, "inclusion", task.sim)
    /\ UNCHANGED <<execution_queue, coordination_cycles, ready, spawnLog, nextTicket, dropped, now, submitted_bundles,
                   bundles_submitted>>
    /\ UNCHANGED <<mevVars, rbfVars, calcVars, swapVars, dexVars, bookVars, healthVars, engVars, cfgVars, startVars, adomLoopVars, cowVars, cowArbVars, arbScanVars>>

\* One execution's whole ADOM pipeline, taken without another task stepping
\* in between: simulation, then (unless it failed) submission, the wait and
\* the inclusion check, then the orchestrator's completion.
ExecutionReturns(task, simSuccess, was_included) ==
    /\ BagIn(task, running)
    /\ task.pc = IF enable_bundle_simulation THEN "simulating" ELSE "submitting"
    /\ enable_bundle_simulation \/ simSuccess
    /\ processed < MaxQueueCompletions
    /\ LET h == BundleHashOf(task.kind)
           sim == IF ~enable_bundle_simulation THEN "skipped"
                  ELSE IF simSuccess THEN "ok" ELSE "failed"
       IN  IF enable_bundle_simulation /\ AfterSimulation(simSuccess) # "submitting"
           THEN /\ CompleteExecution(task, FALSE, "simulation", sim)
                /\ UNCHANGED <<submitted_bundles, bundles_submitted, bundle_results,
                               bundles_included, total_profit>>
           ELSE /\ submitted_bundles' = IF h \in SeqRange(submitted_bundles)
                                        THEN submitted_bundles
                                        ELSE Append(submitted_bundles, h)
                /\ bundles_submitted' = bundles_submitted + 1
                /\ InclusionChecked(h, was_included)
                /\ CompleteExecution(task, was_included, "inclusion", sim)
    /\ UNCHANGED <<execution_queue, coordination_cycles, ready, spawnLog, nextTicket, dropped, now>>
    /\ UNCHANGED <<mevVars, rbfVars, calcVars, swapVars, dexVars, bookVars, healthVars, engVars, cfgVars, startVars, adomLoopVars, cowVars, cowArbVars, arbScanVars>>

\* int(time.time()) advances by one more second. The clock is read only by
\* a starting task, so its steps are taken while a task is about to start.
Tick ==
    /\ now < coordination_interval * coordination_cycles + MaxTime
    /\ ready # <<>>
    /\ now' = now + 1
    /\ UNCHANGED <<execution_queue, active_executions, coordination_cycles, processed,
                   successful, agent_statuses, ready, running, last_result, spawnLog,
                   nextTicket, dropped, adomVars>>
    /\ UNCHANGED <<mevVars, rbfVars, calcVars, swapVars, dexVars, bookVars, healthVars, engVars, cfgVars, startVars, adomLoopVars, cowVars, cowArbVars, arbScanVars>>

-----------------------------------------------------------------------------
(* MEVProtection                                                           *)

MaxBundles == 2       \* execute_protected_trade calls explored
MaxStartMs == 100     \* latest instant (ms) at which a trade or the service starts
MaxClockMs == 33000   \* the clock stops advancing here (past the 30 s timeout)

\* mev_config 'flashbots_enabled': bundles exist only on the Flashbots path.
flashbots_enabled == TRUE

inclusion_timeout == 30     \* _wait_for_bundle_inclusion(timeout=30), seconds
BlockBase == 18500000       \* _get_current_block
BlockCycle == 1000
TargetBlockGrace == 2       \* current_block > bundle.target_block + 2
ExpiryAge == 300            \* _monitor_bundles: "5 minutes old"
HistoryLimit == 100
MonitorIntervalMs == 10000  \* asyncio.sleep(10)
SubmitDelayMs == 100        \* asyncio.sleep(0.1) in _submit_flashbots_bundle
StatusDelayMs == 100        \* asyncio.sleep(0.1) in _check_bundle_status
PollDelayMs == 1000         \* asyncio.sleep(1) in _wait_for_bundle_inclusion

\* int(time.time()) when the first call is made: one instant early in a
\* 1000-block cycle of _get_current_block and one four seconds before the
\* simulated block number wraps.
StartTimes == {1700000000, 1700000996}

CallIds == 1..MaxBundles

CurrentTime == epoch + (clock \div 1000)

\* _get_current_block: 18500000 + int(time.time()) % 1000.
CurrentBlock == BlockBase + (CurrentTime % BlockCycle)

\* _monitor_bundles' age test: the wall clock (seconds) minus a block number.
IsExpired(current_time, target_block) == current_time - target_block > ExpiryAge

\* A cut that keeps the oldest entries instead: bundle_history[:100].
KeepOldest(s, n) == IF Len(s) > n THEN SubSeq(s, 1, n) ELSE s

\* bundle_history[-100:]
KeepLast(s, n) == IF Len(s) > n THEN SubSeq(s, Len(s) - n + 1, Len(s)) ELSE s

\* pending_bundles[bundle_hash] = bundle: a key already present keeps its
\* position and gets the new value.
PutBundle(pending, h, b) ==
    IF \E i \in 1..Len(pending) : pending[i].hash = h
    THEN [i \in 1..Len(pending) |->
             IF pending[i].hash = h THEN [hash |-> h, bundle |-> b] ELSE pending[i]]
    ELSE Append(pending, [hash |-> h, bundle |-> b])

\* MEVProtection.start: sets is_running and creates the monitor task, which
\* runs its first pass when the event loop next schedules it.
MEVStart ==
    /\ ~mev_is_running
    /\ monitor.pc = "none"
    /\ clock <= MaxStartMs
    /\ mev_is_running' = TRUE
    /\ monitor' = IF flashbots_enabled THEN [pc |-> "sleeping", wake |-> clock]
                  ELSE monitor
    /\ UNCHANGED <<bundles, pending_bundles, bundle_history, mev_calls, clock, epoch>>
    /\ UNCHANGED <<orchVars, adomVars, rbfVars, calcVars, swapVars, dexVars, bookVars, healthVars, engVars, cfgVars, startVars, adomLoopVars, cowVars, cowArbVars, arbScanVars>>

\* MEVProtection.stop.
MEVStop ==
    /\ mev_is_running
    /\ mev_is_running' = FALSE
    /\ UNCHANGED <<bundles, pending_bundles, bundle_history, mev_calls, monitor, clock,
                   epoch>>
    /\ UNCHANGED <<orchVars, adomVars, rbfVars, calcVars, swapVars, dexVars, bookVars, healthVars, engVars, cfgVars, startVars, adomLoopVars, cowVars, cowArbVars, arbScanVars>>

\* One pass of _monitor_bundles' loop: every pending bundle that passes the
\* age test is popped and appended to bundle_history, the history is cut to
\* its last 100 entries, and the task sleeps 10 s. The loop condition is read
\* when the task wakes.
MonitorBundles ==
    /\ monitor.pc = "sleeping"
    /\ monitor.wake <= clock
    /\ IF mev_is_running
       THEN LET isOld(e) == IsExpired(CurrentTime, bundles[e.bundle].target_block)
                expired == SelectSeq(pending_bundles, isOld)
                kept    == SelectSeq(pending_bundles, LAMBDA e : ~isOld(e))
            IN  /\ pending_bundles' = kept
                /\ bundle_history' =
                     KeepLast(bundle_history \o [i \in 1..Len(expired) |-> expired[i].bundle],
                              HistoryLimit)
                /\ monitor' = [pc |-> "sleeping", wake |-> clock + MonitorIntervalMs]
       ELSE /\ monitor' = [monitor EXCEPT !.pc = "exited"]
            /\ UNCHANGED <<pending_bundles, bundle_history>>
    /\ UNCHANGED <<mev_is_running, bundles, mev_calls, clock, epoch>>
    /\ UNCHANGED <<orchVars, adomVars, rbfVars, calcVars, swapVars, dexVars, bookVars, healthVars, engVars, cfgVars, startVars, adomLoopVars, cowVars, cowArbVars, arbScanVars>>

\* execute_protected_trade -> _execute_flashbots_trade up to the sleep inside
\* _submit_flashbots_bundle: _create_flashbots_bundle builds the bundle for
\* the next block, names it after the millisecond clock and stores it in
\* pending_bundles.
ExecuteProtectedTrade(c) ==
    /\ flashbots_enabled
    /\ mev_calls[c].pc = "idle"
    /\ \A d \in CallIds : d < c => mev_calls[d].pc # "idle"
    /\ clock <= MaxStartMs
    /\ bundles' = [bundles EXCEPT ![c] = [status |-> "pending",
                                          target_block |-> CurrentBlock + 1,
                                          bundle_hash |-> clock]]
    /\ pending_bundles' = PutBundle(pending_bundles, clock, c)
    /\ mev_calls' = [mev_calls EXCEPT ![c] =
                        [@ EXCEPT !.pc = "submitting", !.wake = clock + SubmitDelayMs]]
    /\ UNCHANGED <<mev_is_running, bundle_history, monitor, clock, epoch>>
    /\ UNCHANGED <<orchVars, adomVars, rbfVars, calcVars, swapVars, dexVars, bookVars, healthVars, engVars, cfgVars, startVars, adomLoopVars, cowVars, cowArbVars, arbScanVars>>

\* _submit_flashbots_bundle returns True; _wait_for_bundle_inclusion takes
\* start_time, enters its loop and suspends inside _check_bundle_status.
SubmitReturns(c) ==
    /\ mev_calls[c].pc = "submitting"
    /\ mev_calls[c].wake <= clock
    /\ mev_calls' = [mev_calls EXCEPT ![c] =
                        [@ EXCEPT !.pc = "checking", !.start_time = clock,
                                  !.wake = clock + StatusDelayMs]]
    /\ UNCHANGED <<mev_is_running, bundles, pending_bundles, bundle_history, monitor,
                   clock, epoch>>
    /\ UNCHANGED <<orchVars, adomVars, rbfVars, calcVars, swapVars, dexVars, bookVars, healthVars, engVars, cfgVars, startVars, adomLoopVars, cowVars, cowArbVars, arbScanVars>>

\* The wait loop without the "return True, tx_hash" after an inclusion.
AfterStatusCheckNoReturn(included) == "block_check"

\* _wait_for_bundle_inclusion: an inclusion ends the wait.
AfterStatusCheck(included) == IF included THEN "returned" ELSE "block_check"

\* _check_bundle_status answered. Included: status 'included', return.
\* Otherwise the target block test: status 'failed' and return once the
\* chain is more than 2 blocks past the target, else sleep 1 s.
StatusChecked(c, included) ==
    /\ mev_calls[c].pc = "checking"
    /\ mev_calls[c].wake <= clock
    /\ LET status == IF included THEN "included" ELSE bundles[c].status
           missed == CurrentBlock > bundles[c].target_block + TargetBlockGrace
       IN  IF AfterStatusCheck(included) = "returned"
           THEN /\ bundles' = [bundles EXCEPT ![c].status = status]
                /\ mev_calls' = [mev_calls EXCEPT ![c] =
                                    [@ EXCEPT !.pc = "returned", !.outcome = "included"]]
           ELSE IF missed
           THEN /\ bundles' = [bundles EXCEPT ![c].status = "failed"]
                /\ mev_calls' = [mev_calls EXCEPT ![c] =
                                    [@ EXCEPT !.pc = "returned",
                                              !.outcome = "missed_target_block"]]
           ELSE /\ bundles' = [bundles EXCEPT ![c].status = status]
                /\ mev_calls' = [mev_calls EXCEPT ![c] =
                                    [@ EXCEPT !.pc = "sleeping",
                                              !.wake = clock + PollDelayMs]]
    /\ UNCHANGED <<mev_is_running, pending_bundles, bundle_history, monitor, clock, epoch>>
    /\ UNCHANGED <<orchVars, adomVars, rbfVars, calcVars, swapVars, dexVars, bookVars, healthVars, engVars, cfgVars, startVars, adomLoopVars, cowVars, cowArbVars, arbScanVars>>

\* A wait loop whose condition never ends it: "while True".
WaitLoopNeverTimesOut(c) ==
    /\ mev_calls[c].pc = "sleeping"
    /\ mev_calls[c].wake <= clock
    /\ mev_calls' = [mev_calls EXCEPT ![c] =
                        [@ EXCEPT !.pc = "checking", !.wake = clock + StatusDelayMs]]
    /\ UNCHANGED <<mev_is_running, bundles, pending_bundles, bundle_history, monitor,
                   clock, epoch>>
    /\ UNCHANGED <<orchVars, adomVars, rbfVars, calcVars, swapVars, dexVars, bookVars, healthVars, engVars, cfgVars, startVars, adomLoopVars, cowVars, cowArbVars, arbScanVars>>

\* The 1 s sleep of the wait loop ended: the loop condition is evaluated;
\* within the timeout the next _check_bundle_status starts, past it the
\* bundle's status becomes 'failed' ("timed out").
WaitLoopWakes(c) ==
    /\ mev_calls[c].pc = "sleeping"
    /\ mev_calls[c].wake <= clock
    /\ IF clock - mev_calls[c].start_time < inclusion_timeout * 1000
       THEN /\ mev_calls' = [mev_calls EXCEPT ![c] =
                                [@ EXCEPT !.pc = "checking", !.wake = clock + StatusDelayMs]]
            /\ UNCHANGED bundles
       ELSE /\ bundles' = [bundles EXCEPT ![c].status = "failed"]
            /\ mev_calls' = [mev_calls EXCEPT ![c] =
                                [@ EXCEPT !.pc = "returned", !.outcome = "timed_out"]]
    /\ UNCHANGED <<mev_is_running, pending_bundles, bundle_history, monitor, clock, epoch>>
    /\ UNCHANGED <<orchVars, adomVars, rbfVars, calcVars, swapVars, dexVars, bookVars, healthVars, engVars, cfgVars, startVars, adomLoopVars, cowVars, cowArbVars, arbScanVars>>

\* Wake-up times of the suspended tasks.
WakeTimes ==
    {mev_calls[c].wake : c \in {d \in CallIds :
                                  mev_calls[d].pc \in {"submitting", "checking", "sleeping"}}}
    \cup (IF monitor.pc = "sleeping" THEN {monitor.wake} ELSE {})

\* The event loop has run every task that was due and waits for the next
\* timer: time passes until it is due.
AdvanceClock ==
    /\ LET future == {w \in WakeTimes : w > clock}
       IN  /\ future # {}
           /\ future = WakeTimes
           /\ LET next == CHOOSE w \in future : \A v \in future : w <= v
              IN  /\ next <= MaxClockMs
                  /\ clock' = next
    /\ UNCHANGED <<mev_is_running, bundles, pending_bundles, bundle_history, mev_calls,
                   monitor, epoch>>
    /\ UNCHANGED <<orchVars, adomVars, rbfVars, calcVars, swapVars, dexVars, bookVars, healthVars, engVars, cfgVars, startVars, adomLoopVars, cowVars, cowArbVars, arbScanVars>>

-----------------------------------------------------------------------------
(* ATOMMEVProtection._submit_with_rbf                                      *)
(* One call; its steps follow one another as the code's control flow does. *)

max_rbf_attempts == 3           \* config.get('max_rbf_attempts', 3)
rbf_gas_increase_percent == 15  \* config.get('rbf_gas_increase_percent', 15)
tx_timeout_seconds == 60        \* config.get('tx_timeout_seconds', 60)
check_interval == 1

\* Gas prices, base fees and priority fees of the transactions explored, in
\* a unit in which the 15 % steps are visible.
GasPrices == {20, 100}
BaseFees == {20, 80}
PriorityFees == {20}

\* _build_arbitrage_tx: an EIP-1559 transaction (maxFeePerGas = base fee +
\* priority fee, maxPriorityFeePerGas) or a legacy one (gasPrice). gas_price
\* holds gasPrice or maxFeePerGas, whichever the dict has.
Transactions ==
    {[type |-> "legacy", gas_price |-> g, priority_fee |-> 0] : g \in GasPrices}
    \cup {[type |-> "eip1559", gas_price |-> b + f, priority_fee |-> f] :
             b \in BaseFees, f \in PriorityFees}

\* The integers below 400 on which the double product x * (1 + 15 / 100)
\* falls just under the integer 115 x / 100, so that int() truncates to one
\* less (int(100 * 1.15) = 114).
TruncatedBelow == {100, 180, 200, 220, 340, 360, 380}

\* int(x * (1 + gas_increase / 100)) on integers below 400.
IncreaseGas(x) ==
    ((x * (100 + rbf_gas_increase_percent)) \div 100)
      - (IF x \in TruncatedBelow THEN 1 ELSE 0)

\* "Increase gas price for retry": the new price is computed from
\* original_gas_price; the priority fee from the dict's current value.
RaiseGas(t, original) ==
    IF t.type = "legacy"
    THEN [t EXCEPT !.gas_price = IncreaseGas(original)]
    ELSE [t EXCEPT !.gas_price = IncreaseGas(original),
                   !.priority_fee = IncreaseGas(@)]

\* The signed transaction's hash is determined by its content.
TxHash(t) == <<t.gas_price, t.priority_fee>>

\* The loop condition with <= in place of <.
CanAttemptInclusive(n) == n <= max_rbf_attempts

\* while attempts < max_attempts
CanAttempt(n) == n < max_rbf_attempts

\* if attempts < max_attempts (after attempts += 1)
WillRetry(n) == n < max_rbf_attempts

\* The end of one loop iteration that did not return a receipt: attempts is
\* incremented, the gas price is raised if another attempt follows, and the
\* loop condition decides between the next send and "return None".
EndAttempt ==
    /\ attempts' = attempts + 1
    /\ IF WillRetry(attempts + 1)
       THEN /\ tx' = RaiseGas(tx, original_gas_price)
            /\ rbf_attempts' = rbf_attempts + 1
       ELSE UNCHANGED <<tx, rbf_attempts>>
    /\ IF CanAttempt(attempts + 1)
       THEN /\ rbf_pc' = "sending"
            /\ rbf_result' = rbf_result
       ELSE /\ rbf_pc' = "returned"
            /\ rbf_result' = "None"

\* _submit_with_rbf is called with a transaction.
SubmitWithRbf(t) ==
    /\ rbf_pc = "idle"
    /\ tx' = t
    /\ original_gas_price' = t.gas_price
    /\ attempts' = 0
    /\ IF CanAttempt(0)
       THEN rbf_pc' = "sending" /\ rbf_result' = rbf_result
       ELSE rbf_pc' = "returned" /\ rbf_result' = "None"
    /\ UNCHANGED <<elapsed, sendLog, rbf_attempts, pending_txs, dropped_txs, confirmed_txs,
                   mined_sends>>
    /\ UNCHANGED <<orchVars, adomVars, mevVars, calcVars, swapVars, dexVars, bookVars, healthVars, engVars, cfgVars, startVars, adomLoopVars, cowVars, cowArbVars, arbScanVars>>

\* The try block up to the wait: sign_transaction or send_raw_transaction may
\* raise (caught by "except Exception"); otherwise the transaction is tracked
\* in pending_txs and _wait_for_tx_with_rbf takes start_time.
SendTransaction(outcome) ==
    /\ rbf_pc = "sending"
    /\ IF outcome = "sent"
       THEN /\ sendLog' = Append(sendLog, [gas_price |-> tx.gas_price,
                                           priority_fee |-> tx.priority_fee,
                                           raised |-> FALSE])
            /\ pending_txs' = pending_txs \cup {TxHash(tx)}
            /\ elapsed' = 0
            /\ rbf_pc' = "polling"
            /\ UNCHANGED <<tx, attempts, rbf_result, rbf_attempts>>
       ELSE /\ sendLog' = IF outcome = "send_error"
                          THEN Append(sendLog, [gas_price |-> tx.gas_price,
                                                priority_fee |-> tx.priority_fee,
                                                raised |-> TRUE])
                          ELSE sendLog
            /\ EndAttempt
            /\ UNCHANGED <<pending_txs, elapsed>>
    /\ UNCHANGED <<original_gas_price, dropped_txs, confirmed_txs, mined_sends>>
    /\ UNCHANGED <<orchVars, adomVars, mevVars, calcVars, swapVars, dexVars, bookVars, healthVars, engVars, cfgVars, startVars, adomLoopVars, cowVars, cowArbVars, arbScanVars>>

\* One pass of _wait_for_tx_with_rbf's loop body: a receipt with status 1 is
\* recorded and returned; a reverted receipt and a transaction dropped from
\* the mempool return None; a transaction still pending, or a lookup that
\* raises, leads to the 1 s sleep.
PollTransaction(result) ==
    /\ rbf_pc = "polling"
    /\ mined_sends' = IF result \in {"confirmed", "reverted"}
                      THEN mined_sends \cup {Len(sendLog)}
                      ELSE mined_sends
    /\ IF result = "confirmed"
       THEN /\ confirmed_txs' = confirmed_txs \cup {TxHash(tx)}
            /\ rbf_pc' = "returned"
            /\ rbf_result' = "receipt"
            /\ UNCHANGED <<tx, attempts, rbf_attempts, pending_txs, dropped_txs>>
       ELSE IF result = "reverted"
       THEN /\ EndAttempt
            /\ UNCHANGED <<pending_txs, dropped_txs, confirmed_txs>>
       ELSE IF result = "dropped"
       THEN /\ dropped_txs' = dropped_txs \cup {TxHash(tx)}
            /\ pending_txs' = pending_txs \ {TxHash(tx)}
            /\ EndAttempt
            /\ UNCHANGED confirmed_txs
       ELSE /\ rbf_pc' = "sleeping"
            /\ UNCHANGED <<tx, attempts, rbf_result, rbf_attempts, pending_txs,
                           dropped_txs, confirmed_txs>>
    /\ UNCHANGED <<original_gas_price, elapsed, sendLog>>
    /\ UNCHANGED <<orchVars, adomVars, mevVars, calcVars, swapVars, dexVars, bookVars, healthVars, engVars, cfgVars, startVars, adomLoopVars, cowVars, cowArbVars, arbScanVars>>

\* The sleep ended and the wait's loop condition is evaluated: within the
\* timeout the next poll follows, past it the wait returns None.
SleepEnds ==
    /\ rbf_pc = "sleeping"
    /\ elapsed' = elapsed + check_interval
    /\ IF elapsed + check_interval < tx_timeout_seconds
       THEN /\ rbf_pc' = "polling"
            /\ UNCHANGED <<tx, attempts, rbf_result, rbf_attempts>>
       ELSE EndAttempt
    /\ UNCHANGED <<original_gas_price, sendLog, pending_txs, dropped_txs, confirmed_txs,
                   mined_sends>>
    /\ UNCHANGED <<orchVars, adomVars, mevVars, calcVars, swapVars, dexVars, bookVars, healthVars, engVars, cfgVars, startVars, adomLoopVars, cowVars, cowArbVars, arbScanVars>>

-----------------------------------------------------------------------------
(* AgentMEVCalculator (agents/agent_mev_calculator.py)                     *)
(*                                                                         *)
(* Decimal values (getcontext().prec = 50) are fractions [n, d] in lowest  *)
(* terms with d > 0.  On the inputs explored here every quotient the code  *)
(* compares differs from the value it is compared with by far more than    *)
(* 10^-50, or is exactly representable, so the fractions order and compare *)
(* as the Decimals do.                                                     *)

RECURSIVE GCD(_, _)
GCD(a, b) == IF b = 0 THEN a ELSE GCD(b, a % b)

Abs(x) == IF x < 0 THEN -x ELSE x

Dec(n, d) ==
    LET s == IF d < 0 THEN -1 ELSE 1
        g == GCD(Abs(n), Abs(d))
    IN  [n |-> (s * n) \div g, d |-> (s * d) \div g]

DecZero == Dec(0, 1)
DecOne == Dec(1, 1)
DecAdd(x, y) == Dec((x.n * y.d) + (y.n * x.d), x.d * y.d)
DecSub(x, y) == Dec((x.n * y.d) - (y.n * x.d), x.d * y.d)
DecMul(x, y) == Dec(x.n * y.n, x.d * y.d)
DecDiv(x, y) == Dec(x.n * y.d, x.d * y.n)
DecLt(x, y) == (x.n * y.d) < (y.n * x.d)
DecLe(x, y) == (x.n * y.d) <= (y.n * x.d)
DecMin(x, y) == IF DecLt(y, x) THEN y ELSE x
DecMax(x, y) == IF DecLt(x, y) THEN y ELSE x
DecAbs(x) == Dec(Abs(x.n), x.d)

\* x ** Decimal('0.5') for x >= 0: the square root, exact when x is the
\* square of a fraction, otherwise rounded down to a multiple of 1/x.d (the
\* code rounds to 50 digits).
DecSqrt(x) ==
    LET m == x.n * x.d
        r == CHOOSE k \in 0..m : k * k <= m /\ (k + 1) * (k + 1) > m
    IN  Dec(r, x.d)

\* int(x): truncation towards zero.
DecInt(x) == IF x.n < 0 THEN -((-x.n) \div x.d) ELSE x.n \div x.d

\* config.get('estimated_gas_usage', 300000), config.get('max_gas_price_gwei', 50)
estimated_gas_usage == 300000
max_gas_price_gwei == 50
GweiPerEth == 1000000000

\* simulate_arbitrage: Decimal(str(gas * gwei * 1e9)) / Decimal('1e18').
GasCost == Dec(estimated_gas_usage * max_gas_price_gwei, GweiPerEth)

\* calc_slippage: (amount_out, slippage) of a constant-product swap.
calc_slippage(amount_in, reserve_in, reserve_out, fee_rate) ==
    IF DecLe(reserve_in, DecZero) \/ DecLe(reserve_out, DecZero)
    THEN <<DecZero, DecOne>>
    ELSE LET price_before == DecDiv(reserve_out, reserve_in)
             amount_in_with_fee == DecMul(amount_in, DecSub(DecOne, fee_rate))
             amount_out == DecDiv(DecMul(amount_in_with_fee, reserve_out),
                                  DecAdd(reserve_in, amount_in_with_fee))
             new_reserve_in == DecAdd(reserve_in, amount_in)
             new_reserve_out == DecSub(reserve_out, amount_out)
         IN  IF DecLe(new_reserve_out, DecZero)
             THEN <<DecZero, DecOne>>
             ELSE LET price_after == DecDiv(new_reserve_out, new_reserve_in)
                  IN  <<amount_out,
                        DecDiv(DecAbs(DecSub(price_after, price_before)),
                               price_before)>>

\* A variant that caps at 10% of pool_a's reserve_in alone.
MaxInputOfPoolA(pool_a, pool_b) == DecMul(pool_a.reserve_in, Dec(1, 10))

\* Cap of calculate_optimal_input: 10% of the smaller reserve_in.
MaxInput(pool_a, pool_b) ==
    DecMin(DecMul(pool_a.reserve_in, Dec(1, 10)),
           DecMul(pool_b.reserve_in, Dec(1, 10)))

\* A variant that returns the cap whatever the prices are.
CapWhateverThePrices(pool_a, pool_b) == MaxInput(pool_a, pool_b)

\* The price test of calculate_optimal_input.
NoPriceGap(price_a, price_b) == DecLe(price_b, price_a)

\* calculate_optimal_input.  A division by zero (a pool with reserve_in = 0,
\* or a zero price) raises, and the except clause returns 0.
calculate_optimal_input(pool_a, pool_b) ==
    IF pool_a.reserve_in.n = 0 \/ pool_b.reserve_in.n = 0
    THEN DecZero
    ELSE LET price_a == DecDiv(pool_a.reserve_out, pool_a.reserve_in)
             price_b == DecDiv(pool_b.reserve_out, pool_b.reserve_in)
             k_a == DecMul(pool_a.reserve_in, pool_a.reserve_out)
         IN  IF NoPriceGap(price_a, price_b)
             THEN DecZero
             ELSE IF DecMul(price_a, price_b).n = 0
             THEN DecZero
             ELSE LET radicand == DecDiv(DecMul(k_a, DecSub(price_b, price_a)),
                                         DecMul(price_a, price_b))
                  IN  IF radicand.n < 0
                      THEN DecZero
                      ELSE DecMin(DecSqrt(radicand), MaxInput(pool_a, pool_b))

\* A variant that lets every slippage pass.
ToleranceUnchecked(slippage_a, slippage_b, tolerance) == FALSE

\* The slippage test of simulate_arbitrage.
ExceedsTolerance(slippage_a, slippage_b, tolerance) ==
    DecLt(tolerance, slippage_a) \/ DecLt(tolerance, slippage_b)

Failure == [success |-> FALSE, input_amount |-> DecZero, gross_profit |-> DecZero,
            net_profit |-> DecZero, slippage_a |-> DecZero, slippage_b |-> DecZero,
            profit_margin |-> DecZero]

\* simulate_arbitrage: buy on pool_a, sell the proceeds on pool_b.
simulate_arbitrage(pool_a, pool_b, input_amount, tolerance) ==
    LET leg_a == calc_slippage(input_amount, pool_a.reserve_in,
                               pool_a.reserve_out, pool_a.fee_rate)
    IN  IF DecLe(leg_a[1], DecZero)
        THEN Failure
        ELSE LET leg_b == calc_slippage(leg_a[1], pool_b.reserve_out,
                                        pool_b.reserve_in, pool_b.fee_rate)
             IN  IF DecLe(leg_b[1], DecZero)
                 THEN Failure
                 ELSE LET gross_profit == DecSub(leg_b[1], input_amount)
                          net_profit == DecSub(gross_profit, GasCost)
                      IN  IF ExceedsTolerance(leg_a[2], leg_b[2], tolerance)
                          THEN Failure
                          ELSE [success |-> TRUE,
                                input_amount |-> input_amount,
                                gross_profit |-> gross_profit,
                                net_profit |-> net_profit,
                                slippage_a |-> leg_a[2],
                                slippage_b |-> leg_b[2],
                                profit_margin |->
                                    IF DecLt(DecZero, input_amount)
                                    THEN DecDiv(net_profit, input_amount)
                                    ELSE DecZero]

\* calculate_confidence_score of a successful simulation, at time current_time.
calculate_confidence_score(simulation, pool_a, pool_b, current_time) ==
    LET margin == DecMin(DecMul(simulation.profit_margin, Dec(10, 1)), DecOne)
        avg_slippage == DecDiv(DecAdd(simulation.slippage_a, simulation.slippage_b),
                               Dec(2, 1))
        slip == DecMax(DecSub(DecOne, DecMul(avg_slippage, Dec(20, 1))), Dec(1, 10))
        min_liquidity == DecMin(pool_a.reserve_in, pool_b.reserve_in)
        liquidity_score == DecMin(DecDiv(min_liquidity, Dec(1000, 1)), DecOne)
        age_a == current_time - pool_a.last_update
        age_b == current_time - pool_b.last_update
        max_age == IF age_a > age_b THEN age_a ELSE age_b
        time_score == DecMax(DecSub(DecOne, Dec(max_age, 60)), Dec(1, 10))
    IN  DecMin(DecMul(DecMul(DecMul(margin, slip), liquidity_score), time_score),
               DecOne)

\* A variant that also accepts a net profit equal to the threshold.
IsProfitableInclusive(simulation, threshold) ==
    simulation.success /\ DecLe(threshold, simulation.net_profit)

\* The profit test of find_arbitrage_opportunities.
IsProfitable(simulation, threshold) ==
    simulation.success /\ DecLt(threshold, simulation.net_profit)

\* self.pool_states[pool_id] = PoolState(...): a dict keeps a key's first
\* position; a new key goes last.
PutPool(states, pool) ==
    IF \E i \in 1..Len(states) : states[i].id = pool.id
    THEN [i \in 1..Len(states) |->
             IF states[i].id = pool.id THEN pool ELSE states[i]]
    ELSE Append(states, pool)

RECURSIVE UpdatePoolStates(_, _)
UpdatePoolStates(states, data) ==
    IF data = <<>> THEN states
    ELSE UpdatePoolStates(PutPool(states, Head(data)), Tail(data))

\* for i in range(len(pool_ids)): for j in range(i + 1, len(pool_ids)).
RECURSIVE PoolPairs(_, _, _)
PoolPairs(i, j, n) ==
    IF i >= n THEN <<>>
    ELSE IF j > n THEN PoolPairs(i + 1, i + 2, n)
    ELSE <<<<i, j>>>> \o PoolPairs(i, j + 1, n)

\* The body of the pair loop: the optimal input and, when the pair passes the
\* tests, the opportunity appended.
EvaluatePair(pool_a, pool_b, threshold, tolerance, current_time) ==
    LET optimal_input == calculate_optimal_input(pool_a, pool_b)
        simulation == simulate_arbitrage(pool_a, pool_b, optimal_input, tolerance)
        found == DecLt(DecZero, optimal_input) /\ IsProfitable(simulation, threshold)
        confidence == calculate_confidence_score(simulation, pool_a, pool_b,
                                                 current_time)
    IN  [pool_a |-> pool_a, pool_b |-> pool_b, optimal_input |-> optimal_input,
         found |-> found,
         opportunity |->
            IF found
            THEN [pool_a_id |-> pool_a.id, pool_b_id |-> pool_b.id,
                  optimal_input |-> optimal_input,
                  expected_profit |-> simulation.gross_profit,
                  net_profit |-> simulation.net_profit,
                  slippage_a |-> simulation.slippage_a,
                  slippage_b |-> simulation.slippage_b,
                  confidence_score |-> confidence,
                  execution_priority |-> DecInt(DecMul(confidence, Dec(100, 1)))]
            ELSE <<>>]

Evaluations(states, threshold, tolerance, current_time) ==
    LET pairs == PoolPairs(1, 2, Len(states))
    IN  [k \in 1..Len(pairs) |->
            EvaluatePair(states[pairs[k][1]], states[pairs[k][2]],
                         threshold, tolerance, current_time)]

RECURSIVE Appended(_)
Appended(evals) ==
    IF evals = <<>> THEN <<>>
    ELSE (IF Head(evals).found THEN <<Head(evals).opportunity>> ELSE <<>>)
         \o Appended(Tail(evals))

\* opportunities.sort(key=lambda x: x.net_profit, reverse=True): a stable
\* sort, equal keys keep their order.
RECURSIVE InsertByNetProfit(_, _)
InsertByNetProfit(sorted, o) ==
    IF sorted = <<>> THEN <<o>>
    ELSE IF DecLt(Head(sorted).net_profit, o.net_profit)
    THEN <<o>> \o sorted
    ELSE <<Head(sorted)>> \o InsertByNetProfit(Tail(sorted), o)

RECURSIVE SortByNetProfit(_, _)
SortByNetProfit(sorted, rest) ==
    IF rest = <<>> THEN sorted
    ELSE SortByNetProfit(InsertByNetProfit(sorted, Head(rest)), Tail(rest))

\* PoolState(reserve_in=Decimal(str(data['reserve_in'])), ...) for pool_id.
PoolState(id, reserve_in, reserve_out, fee_rate, timestamp) ==
    [id |-> id, reserve_in |-> Dec(reserve_in, 1), reserve_out |-> Dec(reserve_out, 1),
     fee_rate |-> fee_rate, last_update |-> timestamp]

\* The data a scan can carry for a pool id (token_token_dex): reserves and
\* timestamp, with fee_rate 0 (with the default 0.003 the two-leg quotients
\* leave TLC's integers).
PoolChoices ==
    {PoolState("WETH_USDC_uniswap", 1, 11, DecZero, 60),
     PoolState("WETH_USDC_sushiswap", 1, 15, DecZero, 60),
     PoolState("WETH_USDC_sushiswap", 2, 24, DecZero, 60),
     PoolState("WETH_USDC_uniswap", 1, 120, DecZero, 60),
     PoolState("WETH_USDC_curve", 2, 24, DecZero, 30),
     PoolState("WETH_USDC_curve", 1, 121, DecZero, 60)}

\* Number of pools in the pools_data of one call.
ScanSizes == {1, 2}

\* time.time() read by calculate_confidence_score.
ScanTimes == {60}

\* (min_profit_eth, slippage_tolerance): the defaults ('0.01', '0.005'), and
\* configurations under which the pools above yield opportunities.
DefaultCalculatorConfig == <<Dec(1, 100), Dec(1, 200)>>
CalculatorConfigs ==
    {DefaultCalculatorConfig, <<Dec(-21, 400), Dec(1, 2)>>, <<Dec(-21, 400), DecZero>>}

\* pools_data of one call: distinct pool ids in dict order.
PoolsData ==
    UNION {{d \in [1..n -> PoolChoices] :
               \A i, j \in 1..n : i # j => d[i].id # d[j].id} : n \in ScanSizes}

\* find_arbitrage_opportunities(pools_data), with time.time() = current_time.
find_arbitrage_opportunities(data, current_time) ==
    \E states \in {UpdatePoolStates(pool_states, data)} :
    \E evals \in {Evaluations(states, min_profit_threshold, slippage_tolerance,
                               current_time)} :
        /\ pool_states' = states
        /\ opportunities_cache' = SortByNetProfit(<<>>, Appended(evals))
        /\ optimal_inputs' = [k \in 1..Len(evals) |->
                                 [pool_a |-> evals[k].pool_a,
                                  pool_b |-> evals[k].pool_b,
                                  optimal_input |-> evals[k].optimal_input]]
        /\ pools_data' = data
        /\ scan_time' = current_time
        /\ UNCHANGED <<min_profit_threshold, slippage_tolerance>>
        /\ UNCHANGED <<orchVars, adomVars, mevVars, rbfVars, swapVars, dexVars, bookVars, healthVars, engVars, cfgVars, startVars, adomLoopVars, cowVars, cowArbVars, arbScanVars>>

InitCalculator(calculator_config) ==
    /\ min_profit_threshold = calculator_config[1]
    /\ slippage_tolerance = calculator_config[2]
    /\ pool_states = <<>>
    /\ opportunities_cache = <<>>
    /\ optimal_inputs = <<>>
    /\ pools_data = <<>>
    /\ scan_time = 0

-----------------------------------------------------------------------------
(* Integer swap outputs: ATOMDexMonitor._calculate_output_amount           *)
(* (backend/Arb Bot/atom-dex-speed.py) and ATOMPathfinder.                 *)
(* _calculate_pool_output (backend/Arb Bot/atom-pathfinding.py), next to   *)
(* calc_slippage on the same pool.                                         *)

\* A variant that rounds the quotient up.
calculate_output_amount_ceil(amount_in, reserve_in, reserve_out) ==
    LET amount_in_with_fee == amount_in * 997
        numerator == amount_in_with_fee * reserve_out
        denominator == (reserve_in * 1000) + amount_in_with_fee
    IN  (numerator + denominator - 1) \div denominator

\* A variant that divides the output by the input once more.
calculate_output_amount_damped(amount_in, reserve_in, reserve_out) ==
    LET amount_in_with_fee == amount_in * 997
        numerator == amount_in_with_fee * reserve_out
        denominator == (reserve_in * 1000) + amount_in_with_fee
    IN  numerator \div (denominator * amount_in)

\* _calculate_output_amount: Python ints, // is floor division.
calculate_output_amount(amount_in, reserve_in, reserve_out) ==
    LET amount_in_with_fee == amount_in * 997
        numerator == amount_in_with_fee * reserve_out
        denominator == (reserve_in * 1000) + amount_in_with_fee
    IN  numerator \div denominator

\* _calculate_pool_output(pool_type, reserves, amount_in, token_in, token_out)
\* with reserves[token_in] = reserve_in and reserves[token_out] = reserve_out;
\* int(amount_in * 0.998) is the floor of the product for amount_in >= 0.
calculate_pool_output(pool_type, reserve_in, reserve_out, amount_in) ==
    IF pool_type = "uniswap_v2"
    THEN LET amount_in_with_fee == amount_in * 997
             numerator == amount_in_with_fee * reserve_out
             denominator == (reserve_in * 1000) + amount_in_with_fee
         IN  numerator \div denominator
    ELSE IF pool_type = "curve"
    THEN (amount_in * 998) \div 1000
    ELSE (amount_in * 997) \div 1000

\* Inputs of the swap functions.
SwapAmounts == {1, 2, 3, 10}
SwapReserves == {0, 1, 2, 10}
SwapFees == {DecZero, Dec(3, 1000)}
PoolTypes == {"uniswap_v2", "curve", "balancer"}

\* The three functions applied to amount_in on the pool under test.
QuoteSwap(amount_in) ==
    /\ \A q \in swap_quotes : q.amount_in # amount_in
    /\ swap_quotes' = swap_quotes \cup
          {[amount_in |-> amount_in,
            amount_out |-> calc_slippage(Dec(amount_in, 1),
                                         Dec(swap_pool.reserve_in, 1),
                                         Dec(swap_pool.reserve_out, 1),
                                         swap_pool.fee_rate)[1],
            output_amount |-> calculate_output_amount(amount_in,
                                  swap_pool.reserve_in, swap_pool.reserve_out),
            pool_output |-> calculate_pool_output(swap_pool.pool_type,
                                  swap_pool.reserve_in, swap_pool.reserve_out,
                                  amount_in)]}
    /\ UNCHANGED swap_pool
    /\ UNCHANGED <<orchVars, adomVars, mevVars, rbfVars, calcVars, dexVars, bookVars, healthVars, engVars, cfgVars, startVars, adomLoopVars, cowVars, cowArbVars, arbScanVars>>

InitSwapPool(reserve_in, reserve_out, fee_rate, pool_type) ==
    /\ swap_pool = [reserve_in |-> reserve_in, reserve_out |-> reserve_out,
                    fee_rate |-> fee_rate, pool_type |-> pool_type]
    /\ swap_quotes = {}

-----------------------------------------------------------------------------
InitOrchestrator ==
    /\ execution_queue = <<>>
    /\ active_executions = <<>>
    /\ coordination_cycles = 0
    /\ processed = 0
    /\ successful = 0
    /\ agent_statuses = [a \in Agents |-> [status |-> "idle", error_count |-> 0,
                                           total_operations |-> 0]]
    /\ ready = <<>>
    /\ running = EmptyBag
    /\ last_result = [success |-> FALSE, stage |-> "none", sim |-> "none"]
    /\ spawnLog = <<>>
    /\ nextTicket = 1
    /\ dropped = 0
    /\ now = 0
    /\ submitted_bundles = <<>>
    /\ bundle_results = [h \in Kinds |-> "none"]
    /\ bundles_submitted = 0
    /\ bundles_included = 0
    /\ total_profit = 0

\* MEVProtection.__init__, with the wall clock at startTime.
InitMEV(startTime) ==
    /\ mev_is_running = FALSE
    /\ bundles = [c \in CallIds |-> [status |-> "none", target_block |-> 0, bundle_hash |-> 0]]
    /\ pending_bundles = <<>>
    /\ bundle_history = <<>>
    /\ mev_calls = [c \in CallIds |-> [pc |-> "idle", wake |-> 0, start_time |-> 0,
                                       outcome |-> "none"]]
    /\ monitor = [pc |-> "none", wake |-> 0]
    /\ clock = 0
    /\ epoch = startTime

PrefilledHistory == 99

\* The bundles of PrefilledHistory earlier trades, oldest first; they are
\* numbered below the calls explored.
EarlierBundles == [i \in 1..PrefilledHistory |-> i - PrefilledHistory]

\* MEVProtection after those trades were archived by _monitor_bundles.
InitMEVAfterTrades(startTime) ==
    /\ mev_is_running = FALSE
    /\ bundles = [c \in CallIds |-> [status |-> "none", target_block |-> 0, bundle_hash |-> 0]]
    /\ pending_bundles = <<>>
    /\ bundle_history = EarlierBundles
    /\ mev_calls = [c \in CallIds |-> [pc |-> "idle", wake |-> 0, start_time |-> 0,
                                       outcome |-> "none"]]
    /\ monitor = [pc |-> "none", wake |-> 0]
    /\ clock = 0
    /\ epoch = startTime

\* ATOMMEVProtection.__init__.
InitRBF ==
    /\ rbf_pc = "idle"
    /\ tx = [type |-> "none", gas_price |-> 0, priority_fee |-> 0]
    /\ original_gas_price = 0
    /\ attempts = 0
    /\ elapsed = 0
    /\ sendLog = <<>>
    /\ rbf_result = "none"
    /\ rbf_attempts = 0
    /\ pending_txs = {}
    /\ dropped_txs = {}
    /\ confirmed_txs = {}
    /\ mined_sends = {}

\* The first observed instant of the orchestrator and the RBF call, whose
\* steps do not read MEVProtection's clock.
-----------------------------------------------------------------------------
(* DEXMonitor (backend/src/modules/dex_monitor.py)                         *)

MaxPairs == 1
MaxDexTime == 32

stale_threshold == 30
CleanInterval == 10

\* The enabled DEXs, in the order start() creates their monitor tasks.
enabled_dexes == <<"uniswap_v2">>

Dexes == {enabled_dexes[i] : i \in 1..Len(enabled_dexes)}

Aggregate == "aggregate"

TaskNames == Dexes \cup {Aggregate}

\* _get_uniswap_v2_pairs / _get_curve_pools: the pairs a monitor polls.
MonitoredPairs(dex) ==
    IF dex = "uniswap_v2"
    THEN <<"WETH/USDC", "WETH/USDT", "WETH/DAI", "WBTC/WETH", "LINK/WETH">>
    ELSE <<"3pool", "stETH", "frxETH", "tricrypto2">>

\* The first MaxPairs of them.
PairsOf(dex) == SubSeq(MonitoredPairs(dex), 1, MaxPairs)

\* The sleep at the end of a monitor's round, in seconds.
MonitorInterval(dex) == IF dex = "curve" THEN 2 ELSE 1

\* _fetch_uniswap_v2_price / _fetch_curve_price at time.time() = t.
FetchPrice(dex, pair, t) ==
    [token_pair |-> pair,
     dex |-> dex,
     price |-> IF dex = "curve" THEN Dec(10001, 10000) ELSE Dec(200050, 100),
     liquidity |-> IF dex = "curve" THEN 5000000 ELSE 1000000,
     timestamp |-> t,
     block_number |-> 18500000]

EmptyDict == [k \in {} |-> k]

\* d[k] = v on a dict.
Put(d, k, v) == [x \in DOMAIN d \cup {k} |-> IF x = k THEN v ELSE d[x]]

\* del d[k] for the keys in ks.
Without(d, ks) == [x \in DOMAIN d \ ks |-> d[x]]

\* _update_price_cache: the price cache after the call.
update_price_cache(cache, dex, pair, price_data) ==
    LET withDex == IF dex \in DOMAIN cache THEN cache ELSE Put(cache, dex, EmptyDict)
    IN  Put(withDex, dex, Put(withDex[dex], pair, price_data))

\* The test of _aggregate_prices on one entry.
IsStale(price_data, current_time) ==
    current_time - price_data.timestamp > stale_threshold

\* The removal loop of _aggregate_prices.
RemoveStale(cache, current_time) ==
    [dex \in DOMAIN cache |->
        Without(cache[dex],
                {pair \in DOMAIN cache[dex] : IsStale(cache[dex][pair], current_time)})]

Ended == [pc |-> "ended", pair |-> 0, wake |-> 0]

Due(task) == dex_tasks[task].pc # "ended" /\ dex_tasks[task].wake <= dex_now

\* start(): returns at once when running; else creates the monitor tasks and
\* the aggregation task and waits for all of them (a later start() follows
\* the end of that wait).
DexStart ==
    /\ ~dex_is_running
    /\ \A t \in TaskNames : dex_tasks[t].pc = "ended"
    /\ dex_is_running' = TRUE
    /\ dex_tasks' = [t \in TaskNames |-> [pc |-> "ready", pair |-> 0, wake |-> dex_now]]
    /\ UNCHANGED <<price_cache, last_update, dex_now, snapshot>>
    /\ UNCHANGED <<orchVars, adomVars, mevVars, rbfVars, calcVars, swapVars, bookVars, healthVars, engVars, cfgVars, startVars, adomLoopVars, cowVars, cowArbVars, arbScanVars>>

\* stop(): no websocket connection is ever opened, so only the flag changes.
DexStop ==
    /\ dex_is_running
    /\ dex_is_running' = FALSE
    /\ UNCHANGED <<price_cache, last_update, dex_tasks, dex_now, snapshot>>
    /\ UNCHANGED <<orchVars, adomVars, mevVars, rbfVars, calcVars, swapVars, bookVars, healthVars, engVars, cfgVars, startVars, adomLoopVars, cowVars, cowArbVars, arbScanVars>>

\* A monitor at "while self.is_running": it ends, or gets its pairs and
\* suspends in the fetch of the first one.
MonitorLoopHead(dex) ==
    /\ Due(dex)
    /\ dex_tasks[dex].pc \in {"ready", "sleeping"}
    /\ dex_tasks' = [dex_tasks EXCEPT ![dex] =
                        IF dex_is_running
                        THEN [pc |-> "fetching", pair |-> 1, wake |-> dex_now]
                        ELSE Ended]
    /\ UNCHANGED <<dex_is_running, price_cache, last_update, dex_now, snapshot>>
    /\ UNCHANGED <<orchVars, adomVars, mevVars, rbfVars, calcVars, swapVars, bookVars, healthVars, engVars, cfgVars, startVars, adomLoopVars, cowVars, cowArbVars, arbScanVars>>

\* A fetch returns: the monitor stores the price, then fetches the next
\* pair or sleeps. Tasks start in creation order, so the fetches of a fresh
\* start return after the aggregation task's first pass.
FetchReturns(dex) ==
    /\ Due(dex)
    /\ dex_tasks[dex].pc = "fetching"
    /\ dex_tasks[Aggregate].pc # "ready"
    /\ LET i == dex_tasks[dex].pair
           pair == PairsOf(dex)[i]
       IN  /\ price_cache' = update_price_cache(price_cache, dex, pair,
                                                FetchPrice(dex, pair, dex_now))
           /\ last_update' = Put(last_update, <<dex, pair>>, dex_now)
           /\ dex_tasks' = [dex_tasks EXCEPT ![dex] =
                               IF i < Len(PairsOf(dex))
                               THEN [pc |-> "fetching", pair |-> i + 1, wake |-> dex_now]
                               ELSE [pc |-> "sleeping", pair |-> 0,
                                     wake |-> dex_now + MonitorInterval(dex)]]
    /\ UNCHANGED <<dex_is_running, dex_now, snapshot>>
    /\ UNCHANGED <<orchVars, adomVars, mevVars, rbfVars, calcVars, swapVars, bookVars, healthVars, engVars, cfgVars, startVars, adomLoopVars, cowVars, cowArbVars, arbScanVars>>

\* _aggregate_prices at "while self.is_running": it ends, or removes the
\* stale entries and sleeps.
AggregatePrices ==
    /\ Due(Aggregate)
    /\ dex_tasks[Aggregate].pc = "ready" => \A d \in Dexes : dex_tasks[d].pc # "ready"
    /\ IF dex_is_running
       THEN /\ price_cache' = RemoveStale(price_cache, dex_now)
            /\ dex_tasks' = [dex_tasks EXCEPT ![Aggregate] =
                                [pc |-> "sleeping", pair |-> 0,
                                 wake |-> dex_now + CleanInterval]]
       ELSE /\ dex_tasks' = [dex_tasks EXCEPT ![Aggregate] = Ended]
            /\ UNCHANGED price_cache
    /\ UNCHANGED <<dex_is_running, last_update, dex_now, snapshot>>
    /\ UNCHANGED <<orchVars, adomVars, mevVars, rbfVars, calcVars, swapVars, bookVars, healthVars, engVars, cfgVars, startVars, adomLoopVars, cowVars, cowArbVars, arbScanVars>>

\* get_latest_prices: price_cache.copy() copies the outer dict only; the
\* per-DEX dicts of the result are those of the cache. The snapshot is the
\* copied key set; taken and time record what it showed when it was made.
GetLatestPrices ==
    /\ snapshot' = [held |-> TRUE, keys |-> DOMAIN price_cache,
                    taken |-> price_cache, time |-> dex_now]
    /\ UNCHANGED <<dex_is_running, price_cache, last_update, dex_tasks, dex_now>>
    /\ UNCHANGED <<orchVars, adomVars, mevVars, rbfVars, calcVars, swapVars, bookVars, healthVars, engVars, cfgVars, startVars, adomLoopVars, cowVars, cowArbVars, arbScanVars>>

\* What the caller reads through the snapshot now.
SnapshotView == [dex \in snapshot.keys |-> price_cache[dex]]

\* Time passes when no task is due.
AdvanceDexTime ==
    /\ dex_now < MaxDexTime
    /\ \A t \in TaskNames : ~Due(t)
    /\ dex_now' = dex_now + 1
    /\ UNCHANGED <<dex_is_running, price_cache, last_update, dex_tasks, snapshot>>
    /\ UNCHANGED <<orchVars, adomVars, mevVars, rbfVars, calcVars, swapVars, bookVars, healthVars, engVars, cfgVars, startVars, adomLoopVars, cowVars, cowArbVars, arbScanVars>>

InitDexMonitor ==
    /\ dex_is_running = FALSE
    /\ price_cache = EmptyDict
    /\ last_update = EmptyDict
    /\ dex_tasks = [t \in TaskNames |-> Ended]
    /\ dex_now = 0
    /\ snapshot = [held |-> FALSE, keys |-> {}, taken |-> EmptyDict, time |-> 0]

-----------------------------------------------------------------------------
(* Feed updates: DEXMonitor._update_price_cache and                        *)
(* ATOMDexMonitor._update_price_book (Arb Bot/atom-dex-speed.py)           *)

QuoteMaxAgeBlocks == 10

\* Timestamps of the price updates and block numbers of the quotes a feed
\* delivers, in any order.
FeedTimestamps == {1, 2}
FeedBlocks == {1, 2, 13}
PoolAddresses == {"0xA", "0xB"}

\* The quote _handle_sync_event builds for a Sync event of a block.
PriceQuote(dex, pool_address, block_number) ==
    [dex |-> dex, token_in |-> "WETH", token_out |-> "USDC",
     amount_in |-> 1, amount_out |-> block_number,
     pool_address |-> pool_address,
     timestamp |-> block_number, block_number |-> block_number]

\* _update_price_book: the price book after the call.
update_price_book(book, token_in, token_out, quote) ==
    LET pair_key == <<token_in, token_out>>
        quotes == IF pair_key \in DOMAIN book THEN book[pair_key] ELSE EmptyDict
        current_block == quote.block_number
        kept == Without(quotes,
                        {k \in DOMAIN quotes :
                            ~(quotes[k].block_number >= current_block - QuoteMaxAgeBlocks)})
    IN  Put(book, pair_key, Put(kept, <<quote.dex, quote.pool_address>>, quote))

\* A monitor hands a price of any age to _update_price_cache.
DeliverPrice(dex, pair, timestamp) ==
    /\ price_cache' = update_price_cache(price_cache, dex, pair,
                                         FetchPrice(dex, pair, timestamp))
    /\ last_update' = Put(last_update, <<dex, pair>>, dex_now)
    /\ delivered' = delivered \cup
                       {[store |-> "price_cache", key |-> <<dex, pair>>, stamp |-> timestamp]}
    /\ UNCHANGED <<dex_is_running, dex_tasks, dex_now, snapshot, price_book, quote_cache>>
    /\ UNCHANGED <<orchVars, adomVars, mevVars, rbfVars, calcVars, swapVars, healthVars, engVars, cfgVars, startVars, adomLoopVars, cowVars, cowArbVars, arbScanVars>>

\* _handle_sync_event hands the quote of an event to _update_price_book.
DeliverQuote(quote) ==
    /\ price_book' = update_price_book(price_book, quote.token_in, quote.token_out, quote)
    /\ quote_cache' = Put(quote_cache,
                          <<<<quote.token_in, quote.token_out>>,
                            <<quote.dex, quote.pool_address>>>>, quote)
    /\ delivered' = delivered \cup
                       {[store |-> "price_book", key |-> <<quote.dex, quote.pool_address>>,
                         stamp |-> quote.block_number]}
    /\ UNCHANGED dexVars
    /\ UNCHANGED <<orchVars, adomVars, mevVars, rbfVars, calcVars, swapVars, healthVars, engVars, cfgVars, startVars, adomLoopVars, cowVars, cowArbVars, arbScanVars>>

InitPriceBook ==
    /\ price_book = EmptyDict
    /\ quote_cache = EmptyDict
    /\ delivered = {}

-----------------------------------------------------------------------------
(* MasterAgentOrchestrator.monitor_agent_health                            *)
(* last_activity is kept here, with the calls of update_agent_status as    *)
(* steps of their own.                                                     *)

MaxReports == 3
MaxHealthChecks == 2
MaxHealthTime == 62

StaleAfter == 60

\* Seconds between two events: the health loop's interval and just above.
HealthDelays == {30, 31}

\* "current_time - status.last_activity > 60"
IsStaleAgent(current_time, activity) == current_time - activity > StaleAfter

\* "error_count / max(total_operations, 1) > 0.5"
HasHighErrorRate(st) ==
    2 * st.error_count > (IF st.total_operations > 1 THEN st.total_operations ELSE 1)

\* update_agent_status calls so far, over all agents.
TotalReports ==
    agent_statuses["mev_calculator"].total_operations
      + agent_statuses["theatom_integration"].total_operations
      + agent_statuses["adom_flashbots"].total_operations

\* An agent's work reports through update_agent_status, which also stamps
\* last_activity.
AgentReports(agent, status, error) ==
    /\ TotalReports < MaxReports
    /\ agent_statuses' = UpdateAgentStatus(agent_statuses, agent, status, error)
    /\ last_activity' = [last_activity EXCEPT ![agent] = health_now]
    /\ UNCHANGED <<health_now, health_warnings, health_checks>>
    /\ UNCHANGED <<execution_queue, active_executions, coordination_cycles, processed,
                   successful, ready, running, last_result, spawnLog, nextTicket,
                   dropped, now>>
    /\ UNCHANGED <<adomVars, mevVars, rbfVars, calcVars, swapVars, dexVars, bookVars, engVars, cfgVars, startVars, adomLoopVars, cowVars, cowArbVars, arbScanVars>>

\* monitor_agent_health: one pass over agent_statuses.
MonitorAgentHealth ==
    /\ health_checks < MaxHealthChecks
    /\ LET stale == {a \in Agents : IsStaleAgent(health_now, last_activity[a])}
           failing == {a \in Agents : HasHighErrorRate(agent_statuses[a])}
       IN  /\ agent_statuses' =
                 [a \in Agents |->
                     IF a \in stale THEN [agent_statuses[a] EXCEPT !.status = "error"]
                     ELSE agent_statuses[a]]
           /\ health_warnings' = {<<a, "stale">> : a \in stale}
                                    \cup {<<a, "high_error_rate">> : a \in failing}
    /\ health_checks' = health_checks + 1
    /\ UNCHANGED <<last_activity, health_now>>
    /\ UNCHANGED <<execution_queue, active_executions, coordination_cycles, processed,
                   successful, ready, running, last_result, spawnLog, nextTicket,
                   dropped, now>>
    /\ UNCHANGED <<adomVars, mevVars, rbfVars, calcVars, swapVars, dexVars, bookVars, engVars, cfgVars, startVars, adomLoopVars, cowVars, cowArbVars, arbScanVars>>

HealthTimePasses(delay) ==
    /\ health_now + delay <= MaxHealthTime
    /\ health_now' = health_now + delay
    /\ UNCHANGED <<last_activity, health_warnings, health_checks>>
    /\ UNCHANGED <<orchVars, adomVars, mevVars, rbfVars, calcVars, swapVars, dexVars, bookVars, engVars, cfgVars, startVars, adomLoopVars, cowVars, cowArbVars, arbScanVars>>

InitHealth ==
    /\ last_activity = [a \in Agents |-> 0]
    /\ health_now = 0
    /\ health_warnings = {}
    /\ health_checks = 0

-----------------------------------------------------------------------------
(* ArbitrageEngine (backend/src/core/arbitrage_engine.py)                  *)
(* The engine with the components it is constructed with: a price source   *)
(* that returns prices and a pathfinder that returns opportunities.        *)

MaxTrades == 4
MaxEngineTime == 1

max_concurrent_trades == 3

TradeIds == 1..MaxTrades

NoTrade == [pc |-> "none", id |-> 0]

\* The tasks between "async with self.trade_semaphore" and its exit,
\* whether running or handed a slot and not yet resumed.
InTradeSection == {t \in TradeIds : trades[t].pc \in {"granted", "executing"}}

\* An acquire that enters whatever the counter says.
NeverLocked(value, waiters) == FALSE

\* asyncio.Semaphore.locked(): no free slot, or somebody is queued.
SemLocked(value, waiters) == value = 0 \/ waiters # <<>>

\* ArbitrageEngine.start: sets is_running, starts the components and enters
\* _run_arbitrage_loop.
EngineStart ==
    /\ ~eng_is_running
    /\ eng_loop.pc = "none"
    /\ eng_stop = "none"
    /\ eng_is_running' = TRUE
    /\ eng_loop' = [pc |-> "waiting", tasks |-> {}]
    /\ UNCHANGED <<active_trades, sem_value, sem_waiters, trades, eng_stop, eng_now,
                   trades_executed>>
    /\ UNCHANGED <<orchVars, adomVars, mevVars, rbfVars, calcVars, swapVars, dexVars, bookVars, healthVars, cfgVars, startVars, adomLoopVars, cowVars, cowArbVars, arbScanVars>>

\* One pass of _run_arbitrage_loop from "while self.is_running" to its next
\* suspension: the pathfinder returns n opportunities; if active_trades has
\* room when an opportunity is looked at, a task is created for it (no task
\* runs during the for loop, so active_trades is the same for all of them);
\* then the loop gathers the tasks, or sleeps when there is none.
LoopScans(n) ==
    /\ eng_loop.pc = "waiting"
    /\ IF ~eng_is_running
       THEN /\ eng_loop' = [pc |-> "exited", tasks |-> {}]
            /\ UNCHANGED trades
       ELSE LET first == Cardinality({t \in TradeIds : trades[t].pc # "none"})
                new == IF Cardinality(active_trades) < max_concurrent_trades
                       THEN (first + 1)..(first + n) ELSE {}
            IN  /\ first + n <= MaxTrades
                /\ trades' = [t \in TradeIds |->
                                 IF t \in new THEN [pc |-> "created", id |-> 0]
                                 ELSE trades[t]]
                /\ eng_loop' = IF new = {} THEN [pc |-> "waiting", tasks |-> {}]
                               ELSE [pc |-> "gather", tasks |-> new]
    /\ UNCHANGED <<eng_is_running, active_trades, sem_value, sem_waiters, eng_stop,
                   eng_now, trades_executed>>
    /\ UNCHANGED <<orchVars, adomVars, mevVars, rbfVars, calcVars, swapVars, dexVars, bookVars, healthVars, cfgVars, startVars, adomLoopVars, cowVars, cowArbVars, arbScanVars>>

\* asyncio.gather of the loop returns when all its tasks are done.
GatherReturns ==
    /\ eng_loop.pc = "gather"
    /\ \A t \in eng_loop.tasks : trades[t].pc = "done"
    /\ eng_loop' = [pc |-> "waiting", tasks |-> {}]
    /\ UNCHANGED <<eng_is_running, active_trades, sem_value, sem_waiters, trades,
                   eng_stop, eng_now, trades_executed>>
    /\ UNCHANGED <<orchVars, adomVars, mevVars, rbfVars, calcVars, swapVars, dexVars, bookVars, healthVars, cfgVars, startVars, adomLoopVars, cowVars, cowArbVars, arbScanVars>>

\* A created task starts (tasks start in creation order): _execute_arbitrage
\* names the trade after the millisecond clock and enters the semaphore, or
\* queues for it.
TradeStarts(t) ==
    /\ trades[t].pc = "created"
    /\ \A u \in TradeIds : u < t => trades[u].pc # "created"
    /\ IF SemLocked(sem_value, sem_waiters)
       THEN /\ trades' = [trades EXCEPT ![t] = [pc |-> "queued", id |-> eng_now]]
            /\ sem_waiters' = Append(sem_waiters, t)
            /\ UNCHANGED <<sem_value, active_trades>>
       ELSE /\ trades' = [trades EXCEPT ![t] = [pc |-> "executing", id |-> eng_now]]
            /\ sem_value' = sem_value - 1
            /\ active_trades' = active_trades \cup {eng_now}
            /\ UNCHANGED sem_waiters
    /\ UNCHANGED <<eng_is_running, eng_loop, eng_stop, eng_now, trades_executed>>
    /\ UNCHANGED <<orchVars, adomVars, mevVars, rbfVars, calcVars, swapVars, dexVars, bookVars, healthVars, cfgVars, startVars, adomLoopVars, cowVars, cowArbVars, arbScanVars>>

\* A queued task that was handed a slot resumes: it leaves the waiters and
\* adds its trade id.
TradeResumes(t) ==
    /\ trades[t].pc = "granted"
    /\ trades' = [trades EXCEPT ![t].pc = "executing"]
    /\ sem_waiters' = SelectSeq(sem_waiters, LAMBDA u : u # t)
    /\ active_trades' = active_trades \cup {trades[t].id}
    /\ UNCHANGED <<eng_is_running, sem_value, eng_loop, eng_stop, eng_now,
                   trades_executed>>
    /\ UNCHANGED <<orchVars, adomVars, mevVars, rbfVars, calcVars, swapVars, dexVars, bookVars, healthVars, cfgVars, startVars, adomLoopVars, cowVars, cowArbVars, arbScanVars>>

\* The trade's execution returns or raises: the id is discarded and the
\* semaphore released; release() hands the slot to the first waiter that
\* was not handed one yet.
TradeFinishes(t, success) ==
    /\ trades[t].pc = "executing"
    /\ trades_executed' = IF success THEN trades_executed + 1 ELSE trades_executed
    /\ active_trades' = active_trades \ {trades[t].id}
    /\ LET queued == SelectSeq(sem_waiters, LAMBDA u : trades[u].pc = "queued")
       IN  IF queued = <<>>
           THEN /\ sem_value' = sem_value + 1
                /\ trades' = [trades EXCEPT ![t].pc = "done"]
           ELSE /\ sem_value' = sem_value
                /\ trades' = [trades EXCEPT ![t].pc = "done",
                                            ![Head(queued)].pc = "granted"]
    /\ UNCHANGED <<eng_is_running, sem_waiters, eng_loop, eng_stop, eng_now>>
    /\ UNCHANGED <<orchVars, adomVars, mevVars, rbfVars, calcVars, swapVars, dexVars, bookVars, healthVars, cfgVars, startVars, adomLoopVars, cowVars, cowArbVars, arbScanVars>>

\* ArbitrageEngine.stop up to the awaits on the components' stop().
EngineStop ==
    /\ eng_is_running
    /\ eng_stop = "none"
    /\ eng_is_running' = FALSE
    /\ eng_stop' = "stopping"
    /\ UNCHANGED <<active_trades, sem_value, sem_waiters, trades, eng_loop, eng_now,
                   trades_executed>>
    /\ UNCHANGED <<orchVars, adomVars, mevVars, rbfVars, calcVars, swapVars, dexVars, bookVars, healthVars, cfgVars, startVars, adomLoopVars, cowVars, cowArbVars, arbScanVars>>

\* stop() at "while self.active_trades": it returns, or sleeps a second.
StopPolls ==
    /\ eng_stop \in {"stopping", "polling"}
    /\ eng_stop' = IF active_trades = {} THEN "returned" ELSE "polling"
    /\ UNCHANGED <<eng_is_running, active_trades, sem_value, sem_waiters, trades,
                   eng_loop, eng_now, trades_executed>>
    /\ UNCHANGED <<orchVars, adomVars, mevVars, rbfVars, calcVars, swapVars, dexVars, bookVars, healthVars, cfgVars, startVars, adomLoopVars, cowVars, cowArbVars, arbScanVars>>

\* The millisecond clock advances.
EngineTick ==
    /\ eng_now < MaxEngineTime
    /\ eng_now' = eng_now + 1
    /\ UNCHANGED <<eng_is_running, active_trades, sem_value, sem_waiters, trades,
                   eng_loop, eng_stop, trades_executed>>
    /\ UNCHANGED <<orchVars, adomVars, mevVars, rbfVars, calcVars, swapVars, dexVars, bookVars, healthVars, cfgVars, startVars, adomLoopVars, cowVars, cowArbVars, arbScanVars>>

InitEngine ==
    /\ eng_is_running = FALSE
    /\ active_trades = {}
    /\ sem_value = max_concurrent_trades
    /\ sem_waiters = <<>>
    /\ trades = [t \in TradeIds |-> NoTrade]
    /\ eng_loop = [pc |-> "none", tasks |-> {}]
    /\ eng_stop = "none"
    /\ eng_now = 0
    /\ trades_executed = 0

-----------------------------------------------------------------------------
(* ConfigManager (backend/src/core/config_manager.py)                      *)
(* A JSON value is [kind, v]: an int, or a str holding the decimal text of  *)
(* v.  A section (network, trading) is a dict from keys to values.          *)

JInt(v) == [kind |-> "int", v |-> v]
JStr(v) == [kind |-> "str", v |-> v]

\* Values a configuration file or an update can carry for a numeric field.
JsonValues == {JInt(-1), JInt(0), JInt(1), JStr(0), JStr(2)}

\* No ConfigManager exists: not constructed yet, or __init__ raised.
NoConfig == [network |-> EmptyDict, trading |-> EmptyDict, held |-> FALSE]

\* bool(value) of Python: None, 0 and '' are false; the text of a number
\* is never empty.
Truthy(value) == ~(value.kind = "int" /\ value.v = 0)

\* int(value): the int itself, or the number its text denotes.
ToInt(value) == value.v

\* _get_nested_value(section.key) is not None and is true.
FieldPresent(cfg, section, key) ==
    /\ key \in DOMAIN cfg[section]
    /\ Truthy(cfg[section][key])

\* _validate_config returns without raising.
validate_config(cfg) ==
    /\ FieldPresent(cfg, "network", "rpc_url")
    /\ FieldPresent(cfg, "network", "chain_id")
    /\ FieldPresent(cfg, "trading", "min_profit_wei")
    /\ FieldPresent(cfg, "trading", "trade_amount_wei")
    /\ ToInt(cfg.trading["min_profit_wei"]) > 0
    /\ ToInt(cfg.trading["trade_amount_wei"]) > 0

\* A variant that accepts every configuration.
validate_nothing(cfg) == TRUE

\* deep_update of one section: every key of the update is written.
deep_update(base, update) ==
    [k \in DOMAIN base \cup DOMAIN update |->
        IF k \in DOMAIN update THEN update[k] ELSE base[k]]

TradingKeys == {"min_profit_wei", "trade_amount_wei"}

\* The trading section of a file or of an update: any keys, any values.
TradingSections ==
    UNION {[keys -> JsonValues] : keys \in SUBSET TradingKeys}

\* The network section of a file or of an update.
NetworkSections ==
    {Put(Put(EmptyDict, "rpc_url", JStr(1)), "chain_id", c) : c \in {JInt(0), JInt(1)}}
    \cup {EmptyDict}

\* ConfigManager(config_path): _load_config, then _validate_config; an
\* exception leaves no object.
ConfigConstruct(network, trading) ==
    /\ ~config.held
    /\ \E loaded \in {[network |-> network, trading |-> trading, held |-> TRUE]} :
          /\ config_before' = config
          /\ IF validate_config(loaded)
             THEN config' = loaded /\ config_raised' = FALSE
             ELSE config' = NoConfig /\ config_raised' = TRUE
    /\ UNCHANGED <<orchVars, adomVars, mevVars, rbfVars, calcVars, swapVars, dexVars, bookVars, healthVars, engVars, startVars, adomLoopVars, cowVars, cowArbVars, arbScanVars>>

\* update_config(updates): deep_update(self.config, updates) writes the held
\* dict in place, then _validate_config runs.
UpdateConfig(network, trading) ==
    /\ config.held
    /\ \E updated \in {[network |-> deep_update(config.network, network),
                        trading |-> deep_update(config.trading, trading),
                        held |-> TRUE]} :
          /\ config_before' = config
          /\ config' = updated
          /\ config_raised' = ~validate_config(updated)
    /\ UNCHANGED <<orchVars, adomVars, mevVars, rbfVars, calcVars, swapVars, dexVars, bookVars, healthVars, engVars, startVars, adomLoopVars, cowVars, cowArbVars, arbScanVars>>

InitConfig ==
    /\ config = NoConfig
    /\ config_before = NoConfig
    /\ config_raised = FALSE

-----------------------------------------------------------------------------
(* ArbitrageEngine.start and stop with the components of atom_cli.py:      *)
(* DEXMonitor, PathfindingEngine (modules/pathfinding.py) and              *)
(* MEVProtection. cow_protocol is not enabled; start() and stop() are      *)
(* called once each. The pathfinder returns no opportunity, so no trade is *)
(* created here. The owner of the price monitor may have started it before *)
(* the engine is started (DexStart).                                       *)

\* What start() does once `await self.dex_monitor.start()` has returned, up
\* to the first suspension of _run_arbitrage_loop: pathfinding.start() and
\* mev_protection.start() set their flags (the latter creates the monitor
\* task), then the loop tests is_running; when it is set the loop gets the
\* prices, and if there are any calls find_opportunities, then sleeps.
\* is_running is the engine's flag at that moment.
StartProceeds(is_running) ==
    /\ pathfinding_is_running' = TRUE
    /\ mev_is_running' = TRUE
    /\ monitor' = IF ~mev_is_running /\ flashbots_enabled
                  THEN [pc |-> "sleeping", wake |-> clock]
                  ELSE monitor
    /\ IF is_running
       THEN /\ eng_start' = "loop_sleeping"
            /\ scanned' = (scanned \/ DOMAIN price_cache # {})
       ELSE /\ eng_start' = "returned"
            /\ UNCHANGED scanned

\* ArbitrageEngine.start(): sets is_running and awaits dex_monitor.start(),
\* which sets its flag, creates its tasks and awaits all of them (or returns
\* at once when the monitor is running already).
EngineStartCalled ==
    /\ ~eng_is_running
    /\ eng_start = "none"
    /\ eng_is_running' = TRUE
    /\ IF dex_is_running
       THEN /\ StartProceeds(TRUE)
            /\ UNCHANGED <<dex_is_running, dex_tasks>>
       ELSE /\ dex_is_running' = TRUE
            /\ dex_tasks' = [t \in TaskNames |->
                                [pc |-> "ready", pair |-> 0, wake |-> dex_now]]
            /\ eng_start' = "dex_gather"
            /\ UNCHANGED <<pathfinding_is_running, scanned, mev_is_running, monitor>>
    /\ UNCHANGED <<price_cache, last_update, dex_now, snapshot>>
    /\ UNCHANGED <<bundles, pending_bundles, bundle_history, mev_calls, clock, epoch>>
    /\ UNCHANGED <<active_trades, sem_value, sem_waiters, trades, eng_loop, eng_stop,
                   eng_now, trades_executed>>
    /\ UNCHANGED <<orchVars, adomVars, rbfVars, calcVars, swapVars, bookVars, healthVars, cfgVars, adomLoopVars, cowVars, cowArbVars, arbScanVars>>

\* The gather inside dex_monitor.start() returns when every task it created
\* has ended; start() goes on.
DexStartReturns ==
    /\ eng_start = "dex_gather"
    /\ \A t \in TaskNames : dex_tasks[t].pc = "ended"
    /\ StartProceeds(eng_is_running)
    /\ UNCHANGED <<dexVars, engVars>>
    /\ UNCHANGED <<bundles, pending_bundles, bundle_history, mev_calls, clock, epoch>>
    /\ UNCHANGED <<orchVars, adomVars, rbfVars, calcVars, swapVars, bookVars, healthVars, cfgVars, adomLoopVars, cowVars, cowArbVars, arbScanVars>>

\* _run_arbitrage_loop wakes from its sleep at "while self.is_running": it
\* returns (and start() with it), or does another pass.
LoopWakes ==
    /\ eng_start = "loop_sleeping"
    /\ IF eng_is_running
       THEN /\ scanned' = (scanned \/ DOMAIN price_cache # {})
            /\ UNCHANGED eng_start
       ELSE /\ eng_start' = "returned"
            /\ UNCHANGED scanned
    /\ UNCHANGED pathfinding_is_running
    /\ UNCHANGED <<orchVars, adomVars, mevVars, rbfVars, calcVars, swapVars, dexVars, bookVars, healthVars, engVars, cfgVars, adomLoopVars, cowVars, cowArbVars, arbScanVars>>

\* ArbitrageEngine.stop(): clears is_running and calls stop() on the
\* components, each of which returns at once when its flag is not set.
\* PathfindingEngine.stop() of a running pathfinder suspends in
\* session.close(); otherwise stop() goes on to mev_protection.stop() and,
\* with no active trade, returns.
EngineStopCalled ==
    /\ eng_is_running
    /\ eng_stop = "none"
    /\ active_trades = {}
    /\ eng_is_running' = FALSE
    /\ dex_is_running' = FALSE
    /\ pathfinding_is_running' = FALSE
    /\ IF pathfinding_is_running
       THEN /\ eng_stop' = "closing_session"
            /\ UNCHANGED mev_is_running
       ELSE /\ eng_stop' = "returned"
            /\ mev_is_running' = FALSE
    /\ UNCHANGED <<eng_start, scanned>>
    /\ UNCHANGED <<price_cache, last_update, dex_tasks, dex_now, snapshot>>
    /\ UNCHANGED <<bundles, pending_bundles, bundle_history, mev_calls, monitor, clock,
                   epoch>>
    /\ UNCHANGED <<active_trades, sem_value, sem_waiters, trades, eng_loop, eng_now,
                   trades_executed>>
    /\ UNCHANGED <<orchVars, adomVars, rbfVars, calcVars, swapVars, bookVars, healthVars, cfgVars, adomLoopVars, cowVars, cowArbVars, arbScanVars>>

\* session.close() has returned: stop() calls mev_protection.stop() and,
\* with no active trade, returns.
StopResumes ==
    /\ eng_stop = "closing_session"
    /\ active_trades = {}
    /\ mev_is_running' = FALSE
    /\ eng_stop' = "returned"
    /\ UNCHANGED <<bundles, pending_bundles, bundle_history, mev_calls, monitor, clock,
                   epoch>>
    /\ UNCHANGED <<eng_is_running, active_trades, sem_value, sem_waiters, trades,
                   eng_loop, eng_now, trades_executed>>
    /\ UNCHANGED startVars
    /\ UNCHANGED <<orchVars, adomVars, rbfVars, calcVars, swapVars, dexVars, bookVars, healthVars, cfgVars, adomLoopVars, cowVars, cowArbVars, arbScanVars>>

\* The owner of the price monitor starts it before the engine is started.
DexStartedBeforeEngine ==
    /\ eng_start = "none"
    /\ DexStart

InitStartup ==
    /\ eng_start = "none"
    /\ pathfinding_is_running = FALSE
    /\ scanned = FALSE

-----------------------------------------------------------------------------
(* ADOMFlashbotsIntegration with start_adom_monitoring                     *)
(* execute_mev_opportunity calls made directly on the integration, next to *)
(* its monitoring loop. The sleeps (0.2 s, 15 s, 0.1 s, 60 s) only order   *)
(* the steps of one coroutine; coroutines interleave freely.               *)

MaxAdomCalls == 2      \* execute_mev_opportunity calls
MaxMonitorPasses == 2  \* passes of the monitoring loop

AdomCallIds == 1..MaxAdomCalls

NoAdomCall == [pc |-> "none", kind |-> 0, submitted |-> FALSE]

\* The first hash at or after position i of the pass's key list that has no
\* stored result, or 0 when the for loop is over.
RECURSIVE NextUnchecked(_, _, _)
NextUnchecked(keys, i, results) ==
    IF i > Len(keys) THEN 0
    ELSE IF results[keys[i]] = "none" THEN i
    ELSE NextUnchecked(keys, i + 1, results)

\* execute_mev_opportunity(opportunity): create_arbitrage_bundle, then
\* simulate_bundle suspends (or, without simulation, the submission does).
ExecuteMevOpportunity(c, k) ==
    /\ adom_calls[c].pc = "none"
    /\ \A b \in AdomCallIds : b < c => adom_calls[b].pc # "none"
    /\ adom_calls' = [adom_calls EXCEPT ![c] =
                         [pc |-> IF enable_bundle_simulation THEN "simulating"
                                 ELSE "submitting",
                          kind |-> k, submitted |-> FALSE]]
    /\ UNCHANGED <<adom_monitor, adom_credits>>
    /\ UNCHANGED <<orchVars, adomVars, mevVars, rbfVars, calcVars, swapVars, dexVars, bookVars, healthVars, engVars, cfgVars, startVars, cowVars, cowArbVars, arbScanVars>>

\* simulate_bundle returned: on failure the call returns stage 'simulation'.
SimulateBundleReturns(c, simSuccess) ==
    /\ adom_calls[c].pc = "simulating"
    /\ adom_calls' = [adom_calls EXCEPT ![c].pc =
                         IF AfterSimulation(simSuccess) = "submitting"
                         THEN "submitting" ELSE "returned"]
    /\ UNCHANGED <<adom_monitor, adom_credits>>
    /\ UNCHANGED <<orchVars, adomVars, mevVars, rbfVars, calcVars, swapVars, dexVars, bookVars, healthVars, engVars, cfgVars, startVars, cowVars, cowArbVars, arbScanVars>>

\* submit_bundle_to_flashbots after its network delay: the bundle is tracked
\* and counted; the call then sleeps 15 s.
SubmitBundleToFlashbots(c) ==
    /\ adom_calls[c].pc = "submitting"
    /\ LET h == BundleHashOf(adom_calls[c].kind)
       IN  submitted_bundles' = IF h \in SeqRange(submitted_bundles)
                                THEN submitted_bundles
                                ELSE Append(submitted_bundles, h)
    /\ bundles_submitted' = bundles_submitted + 1
    /\ adom_calls' = [adom_calls EXCEPT ![c].pc = "waiting", ![c].submitted = TRUE]
    /\ UNCHANGED <<bundle_results, bundles_included, total_profit>>
    /\ UNCHANGED <<adom_monitor, adom_credits>>
    /\ UNCHANGED <<orchVars, mevVars, rbfVars, calcVars, swapVars, dexVars, bookVars, healthVars, engVars, cfgVars, startVars, cowVars, cowArbVars, arbScanVars>>

\* Step 4 after the 15 s: check_bundle_inclusion finds the hash and suspends
\* for the relay's answer.
CheckBundleInclusion(c) ==
    /\ adom_calls[c].pc = "waiting"
    /\ BundleHashOf(adom_calls[c].kind) \in SeqRange(submitted_bundles)
    /\ adom_calls' = [adom_calls EXCEPT ![c].pc = "checking"]
    /\ UNCHANGED <<adom_monitor, adom_credits>>
    /\ UNCHANGED <<orchVars, adomVars, mevVars, rbfVars, calcVars, swapVars, dexVars, bookVars, healthVars, engVars, cfgVars, startVars, cowVars, cowArbVars, arbScanVars>>

\* The relay answered the call's check: metrics on inclusion, the result is
\* stored and execute_mev_opportunity returns.
InclusionCheckReturns(c, was_included) ==
    /\ adom_calls[c].pc = "checking"
    /\ LET h == BundleHashOf(adom_calls[c].kind)
       IN  /\ InclusionChecked(h, was_included)
           /\ adom_credits' = IF was_included
                              THEN [adom_credits EXCEPT ![h] = @ + 1]
                              ELSE adom_credits
    /\ adom_calls' = [adom_calls EXCEPT ![c].pc = "returned"]
    /\ UNCHANGED <<submitted_bundles, bundles_submitted>>
    /\ UNCHANGED adom_monitor
    /\ UNCHANGED <<orchVars, mevVars, rbfVars, calcVars, swapVars, dexVars, bookVars, healthVars, engVars, cfgVars, startVars, cowVars, cowArbVars, arbScanVars>>

\* start_adom_monitoring is called, or its loop wakes from the 60 s sleep:
\* it lists the submitted hashes and calls check_bundle_inclusion for the
\* first one without a stored result, or sleeps again.
MonitoringPass ==
    /\ adom_monitor.pc \in {"none", "sleeping"}
    /\ adom_monitor.passes < MaxMonitorPasses
    /\ LET i == NextUnchecked(submitted_bundles, 1, bundle_results)
       IN  adom_monitor' = [pc |-> IF i = 0 THEN "sleeping" ELSE "checking",
                            keys |-> IF i = 0 THEN <<>> ELSE submitted_bundles,
                            at |-> i,
                            passes |-> adom_monitor.passes + 1]
    /\ UNCHANGED <<adom_calls, adom_credits>>
    /\ UNCHANGED <<orchVars, adomVars, mevVars, rbfVars, calcVars, swapVars, dexVars, bookVars, healthVars, engVars, cfgVars, startVars, cowVars, cowArbVars, arbScanVars>>

\* The relay answered the loop's check: metrics on inclusion, the result is
\* stored, and the for loop goes on to the next listed hash without a
\* stored result, or the pass ends in the 60 s sleep.
MonitoringCheckReturns(was_included) ==
    /\ adom_monitor.pc = "checking"
    /\ LET h == adom_monitor.keys[adom_monitor.at]
           i == NextUnchecked(adom_monitor.keys, adom_monitor.at + 1,
                              StoreResult(bundle_results, h, was_included))
       IN  /\ InclusionChecked(h, was_included)
           /\ adom_credits' = IF was_included
                              THEN [adom_credits EXCEPT ![h] = @ + 1]
                              ELSE adom_credits
           /\ adom_monitor' = [adom_monitor EXCEPT
                                  !.pc = IF i = 0 THEN "sleeping" ELSE "checking",
                                  !.keys = IF i = 0 THEN <<>> ELSE @,
                                  !.at = i]
    /\ UNCHANGED <<submitted_bundles, bundles_submitted>>
    /\ UNCHANGED adom_calls
    /\ UNCHANGED <<orchVars, mevVars, rbfVars, calcVars, swapVars, dexVars, bookVars, healthVars, engVars, cfgVars, startVars, cowVars, cowArbVars, arbScanVars>>

InitAdomLoop ==
    /\ adom_calls = [c \in AdomCallIds |-> NoAdomCall]
    /\ adom_monitor = [pc |-> "none", keys |-> <<>>, at |-> 0, passes |-> 0]
    /\ adom_credits = [h \in Kinds |-> 0]

-----------------------------------------------------------------------------
(* CoWIntegration (backend/src/modules/cow_integration.py)                 *)
(* The integration is running. The CoW API keeps each order's state; a     *)
(* request is served at some moment between its sending and the arrival of *)
(* its response, and the response tells the state at that moment. A        *)
(* CoWOrder object is shared by active_orders and order_history, so an     *)
(* order's status is one value per order.                                  *)

MaxOrders == 2         \* orders created
MaxOrderPasses == 2    \* passes of _monitor_orders

CowHistoryLimit == 1000

OrderIds == 1..MaxOrders

TerminalStatuses == {"filled", "cancelled", "expired"}

NoRequest == [pc |-> "none", response |-> "none"]

\* create_arbitrage_order whose submission the API accepted (201): the
\* order is tracked under the uid the API returned.
CreateArbitrageOrder(o) ==
    /\ cow_server[o] = "none"
    /\ \A p \in OrderIds : p < o => cow_server[p] # "none"
    /\ cow_server' = [cow_server EXCEPT ![o] = "pending"]
    /\ order_status' = [order_status EXCEPT ![o] = "pending"]
    /\ active_orders' = active_orders \cup {o}
    /\ UNCHANGED <<order_history, cow_monitor, cow_cancels, cow_passes>>
    /\ UNCHANGED <<orchVars, adomVars, mevVars, rbfVars, calcVars, swapVars, dexVars, bookVars, healthVars, engVars, cfgVars, startVars, adomLoopVars, cowArbVars, arbScanVars>>

\* The protocol settles or expires an open order.
OrderSettles(o, status) ==
    /\ cow_server[o] = "pending"
    /\ cow_server' = [cow_server EXCEPT ![o] = status]
    /\ UNCHANGED <<order_status, active_orders, order_history, cow_monitor, cow_cancels,
                   cow_passes>>
    /\ UNCHANGED <<orchVars, adomVars, mevVars, rbfVars, calcVars, swapVars, dexVars, bookVars, healthVars, engVars, cfgVars, startVars, adomLoopVars, cowArbVars, arbScanVars>>

\* list(self.active_orders.items()): the ids in insertion order, which is
\* the order of creation.
RECURSIVE ActiveItems(_)
ActiveItems(keys) ==
    IF keys = {} THEN <<>>
    ELSE LET first == CHOOSE o \in keys : \A p \in keys : o <= p
         IN  <<first>> \o ActiveItems(keys \ {first})

\* The for loop of _monitor_orders at its next listed order: it suspends in
\* _check_order_status; with no order left the pass ends in the 10 s sleep.
MonitorAdvance(todo) ==
    IF todo = <<>>
    THEN [pc |-> "sleeping", todo |-> <<>>, response |-> "none"]
    ELSE [pc |-> "requested", todo |-> todo, response |-> "none"]

\* _monitor_orders wakes (or starts): it lists active_orders and begins
\* with the first order.
MonitorOrdersPass ==
    /\ cow_monitor.pc = "sleeping"
    /\ cow_passes < MaxOrderPasses
    /\ cow_passes' = cow_passes + 1
    /\ cow_monitor' = MonitorAdvance(ActiveItems(active_orders))
    /\ UNCHANGED <<cow_server, order_status, active_orders, order_history, cow_cancels>>
    /\ UNCHANGED <<orchVars, adomVars, mevVars, rbfVars, calcVars, swapVars, dexVars, bookVars, healthVars, engVars, cfgVars, startVars, adomLoopVars, cowArbVars, arbScanVars>>

\* The API serves the monitor's GET /orders/{id}.
StatusRequestServed ==
    /\ cow_monitor.pc = "requested"
    /\ cow_monitor' = [cow_monitor EXCEPT !.pc = "served",
                                          !.response = cow_server[Head(cow_monitor.todo)]]
    /\ UNCHANGED <<cow_server, order_status, active_orders, order_history, cow_cancels,
                   cow_passes>>
    /\ UNCHANGED <<orchVars, adomVars, mevVars, rbfVars, calcVars, swapVars, dexVars, bookVars, healthVars, engVars, cfgVars, startVars, adomLoopVars, cowArbVars, arbScanVars>>

\* _check_order_status returns: a status unlike the order's is written to
\* the order; with a terminal status the order is appended to the history
\* and deleted from active_orders. Deleting an id that is gone raises
\* KeyError, which ends the pass in the except branch's sleep; otherwise
\* the for loop goes on, and after it the history is cut to its last 1000.
StatusReturns ==
    /\ cow_monitor.pc = "served"
    /\ LET o == Head(cow_monitor.todo)
           status == cow_monitor.response
           changed == status # order_status[o]
           moved == changed /\ status \in TerminalStatuses
           raised == moved /\ o \notin active_orders
           rest == Tail(cow_monitor.todo)
           appended == IF moved THEN Append(order_history, o) ELSE order_history
       IN  /\ order_status' = IF changed THEN [order_status EXCEPT ![o] = status]
                              ELSE order_status
           /\ active_orders' = IF moved THEN active_orders \ {o} ELSE active_orders
           /\ order_history' = IF ~raised /\ rest = <<>>
                               THEN KeepLast(appended, CowHistoryLimit)
                               ELSE appended
           /\ cow_monitor' = IF raised THEN MonitorAdvance(<<>>) ELSE MonitorAdvance(rest)
    /\ UNCHANGED <<cow_server, cow_cancels, cow_passes>>
    /\ UNCHANGED <<orchVars, adomVars, mevVars, rbfVars, calcVars, swapVars, dexVars, bookVars, healthVars, engVars, cfgVars, startVars, adomLoopVars, cowArbVars, arbScanVars>>

\* cancel_order(order_id): an id that is not in active_orders returns False
\* at once; otherwise the DELETE request is sent.
CancelOrder(o) ==
    /\ cow_cancels[o].pc = "none"
    /\ cow_server[o] # "none"
    /\ cow_cancels' = [cow_cancels EXCEPT ![o] =
                          IF o \in active_orders
                          THEN [pc |-> "requested", response |-> "none"]
                          ELSE [pc |-> "returned", response |-> "not_active"]]
    /\ UNCHANGED <<cow_server, order_status, active_orders, order_history, cow_monitor,
                   cow_passes>>
    /\ UNCHANGED <<orchVars, adomVars, mevVars, rbfVars, calcVars, swapVars, dexVars, bookVars, healthVars, engVars, cfgVars, startVars, adomLoopVars, cowArbVars, arbScanVars>>

\* The API serves the DELETE: an open order is cancelled (200), any other
\* is refused.
CancelRequestServed(o) ==
    /\ cow_cancels[o].pc = "requested"
    /\ IF cow_server[o] = "pending"
       THEN /\ cow_server' = [cow_server EXCEPT ![o] = "cancelled"]
            /\ cow_cancels' = [cow_cancels EXCEPT ![o] =
                                  [pc |-> "served", response |-> "200"]]
       ELSE /\ cow_cancels' = [cow_cancels EXCEPT ![o] =
                                  [pc |-> "served", response |-> "refused"]]
            /\ UNCHANGED cow_server
    /\ UNCHANGED <<order_status, active_orders, order_history, cow_monitor, cow_passes>>
    /\ UNCHANGED <<orchVars, adomVars, mevVars, rbfVars, calcVars, swapVars, dexVars, bookVars, healthVars, engVars, cfgVars, startVars, adomLoopVars, cowArbVars, arbScanVars>>

\* The DELETE's response arrives: on 200 the order (looked up in
\* active_orders, KeyError if it is gone) is set to 'cancelled', appended to
\* the history and deleted from active_orders.
CancelReturns(o) ==
    /\ cow_cancels[o].pc = "served"
    /\ cow_cancels' = [cow_cancels EXCEPT ![o].pc = "returned"]
    /\ IF cow_cancels[o].response = "200" /\ o \in active_orders
       THEN /\ order_status' = [order_status EXCEPT ![o] = "cancelled"]
            /\ order_history' = Append(order_history, o)
            /\ active_orders' = active_orders \ {o}
       ELSE UNCHANGED <<order_status, order_history, active_orders>>
    /\ UNCHANGED <<cow_server, cow_monitor, cow_passes>>
    /\ UNCHANGED <<orchVars, adomVars, mevVars, rbfVars, calcVars, swapVars, dexVars, bookVars, healthVars, engVars, cfgVars, startVars, adomLoopVars, cowArbVars, arbScanVars>>

InitCow ==
    /\ cow_server = [o \in OrderIds |-> "none"]
    /\ order_status = [o \in OrderIds |-> "none"]
    /\ active_orders = {}
    /\ order_history = <<>>
    /\ cow_monitor = [pc |-> "sleeping", todo |-> <<>>, response |-> "none"]
    /\ cow_cancels = [o \in OrderIds |-> NoRequest]
    /\ cow_passes = 0

-----------------------------------------------------------------------------
(* ATOMCoWIntegration (backend/Arb Bot/atom-cow-integration.py)            *)
(* _monitor_open_orders: each cycle fetches the API's open orders, filters *)
(* them, and checks each remaining order against the pathfinder's quote.   *)
(* Amounts are small integers; the clock counts cycles.                    *)

MaxCowCycles == 3          \* cycles of _monitor_open_orders

MinCowOrderSizeUsd == 1000 \* config min_cow_order_size_usd (default)
CowGasCost == 1            \* external_quote.gas_estimate * gas_price
CowMinProfit == 2          \* config min_profit_wei

\* The sell orders the API may list: uid, whether both tokens are in
\* config['tokens'], valid_to, the estimated size in USD, buy_amount.
CowOrderBook ==
    {[uid |-> 1, supported |-> TRUE,  valid_to |-> 9, size_usd |-> 2000, buy_amount |-> 5],
     [uid |-> 2, supported |-> TRUE,  valid_to |-> 1, size_usd |-> 2000, buy_amount |-> 5],
     [uid |-> 3, supported |-> TRUE,  valid_to |-> 9, size_usd |-> 500,  buy_amount |-> 5],
     [uid |-> 4, supported |-> FALSE, valid_to |-> 9, size_usd |-> 2000, buy_amount |-> 5],
     [uid |-> 5, supported |-> TRUE,  valid_to |-> 9, size_usd |-> 2000, buy_amount |-> 4]}

CowUids == {order.uid : order \in CowOrderBook}

\* amount_out of the pathfinder's best route; 0 stands for no route.
ExternalOutputs == {0, 7, 9}

\* The fetched orders as a list, in the API's (uid) order.
RECURSIVE OrdersListed(_)
OrdersListed(orders) ==
    IF orders = {} THEN <<>>
    ELSE LET first == CHOOSE o \in orders : \A p \in orders : o.uid <= p.uid
         IN  <<first>> \o OrdersListed(orders \ {first})

\* The test of _filter_relevant_orders on one order.
IsRelevant(order, time_now, executed) ==
    /\ order.supported
    /\ ~(order.valid_to <= time_now)
    /\ order.uid \notin executed
    /\ ~(order.size_usd < MinCowOrderSizeUsd)

\* _filter_relevant_orders(orders): the orders that pass, in their order.
filter_relevant_orders(orders, time_now, executed) ==
    SelectSeq(orders, LAMBDA order : IsRelevant(order, time_now, executed))

\* _check_arbitrage_opportunity for a sell order: an opportunity when the
\* external output exceeds the order's buy_amount by more than the gas cost
\* plus min_profit_wei.
HasArbitrageOpportunity(order, external_output) ==
    /\ external_output # 0
    /\ external_output > order.buy_amount
    /\ external_output - order.buy_amount > CowGasCost + CowMinProfit

\* The for loop over relevant_orders at its next order: it suspends in
\* _check_arbitrage_opportunity; with no order left the cycle ends in the
\* sleep.
OpenOrdersAdvance(loop, todo) ==
    [loop EXCEPT !.pc = IF todo = <<>> THEN "sleeping" ELSE "checking",
                 !.todo = todo]

\* A cycle of _monitor_open_orders: _fetch_open_orders returns the listed
\* orders, _filter_relevant_orders keeps the relevant ones and records them
\* in monitored_orders.
OpenOrdersFetched(listed) ==
    /\ open_orders_loop.pc = "sleeping"
    /\ open_orders_loop.cycles < MaxCowCycles
    /\ LET time_now == open_orders_loop.cycles
           relevant == filter_relevant_orders(OrdersListed(listed), time_now, executed_orders)
       IN  /\ monitored_orders' = monitored_orders \cup {order.uid : order \in SeqRange(relevant)}
           /\ open_orders_loop' =
                  OpenOrdersAdvance([open_orders_loop EXCEPT !.cycles = @ + 1], relevant)
    /\ UNCHANGED <<executed_orders, arbitrages_found, cow_executions>>
    /\ UNCHANGED <<orchVars, adomVars, mevVars, rbfVars, calcVars, swapVars, dexVars, bookVars, healthVars, engVars, cfgVars, startVars, adomLoopVars, cowVars, arbScanVars>>

\* _check_arbitrage_opportunity returns for the next relevant order; with
\* an opportunity _execute_cow_arbitrage runs _execute_direct_settlement,
\* which prepares the settlement and counts it in arbitrages_found.
ArbitrageChecked(external_output) ==
    /\ open_orders_loop.pc = "checking"
    /\ LET order == Head(open_orders_loop.todo)
           opportunity == HasArbitrageOpportunity(order, external_output)
       IN  /\ arbitrages_found' = IF opportunity THEN arbitrages_found + 1
                                  ELSE arbitrages_found
           /\ cow_executions' = IF opportunity
                                THEN [cow_executions EXCEPT ![order.uid] = @ + 1]
                                ELSE cow_executions
           /\ open_orders_loop' =
                  OpenOrdersAdvance(open_orders_loop, Tail(open_orders_loop.todo))
    /\ UNCHANGED <<monitored_orders, executed_orders>>
    /\ UNCHANGED <<orchVars, adomVars, mevVars, rbfVars, calcVars, swapVars, dexVars, bookVars, healthVars, engVars, cfgVars, startVars, adomLoopVars, cowVars, arbScanVars>>

InitCowArb ==
    /\ monitored_orders = {}
    /\ executed_orders = {}
    /\ arbitrages_found = 0
    /\ cow_executions = [uid \in CowUids |-> 0]
    /\ open_orders_loop = [pc |-> "sleeping", todo |-> <<>>, cycles |-> 0]

-----------------------------------------------------------------------------
(* ATOMDexMonitor._scan_arbitrage_opportunities                            *)
(* (backend/Arb Bot/atom-dex-speed.py)                                     *)
(* Sync events of the pools fill the price book with a quote per direction;*)
(* a pass of the scan reads the book. Amounts are in small units: a quote  *)
(* is for an input of SyncAmountIn, gas is counted in swaps.               *)

MaxOpportunitiesFound == 2   \* metrics['opportunities_found'] stops here

SyncAmountIn == 10       \* Web3.toWei(1, 'ether')
TradeAmount == 10        \* config['trade_amount_wei']
ScanMinProfit == 1       \* config['min_profit_wei']
ScanGasPrice == 1        \* w3.eth.gas_price
SwapGas == 1             \* _estimate_gas_for_dex: 150000 for both DEXs

SyncDexes == {"sushiswap", "uniswap_v2"}
SyncBlocks == {1, 2, 13}
SyncReserves == {<<100, 100>>, <<100, 300>>}

\* The pool of a DEX for the pair (token0 WETH, token1 USDC).
PoolOf(dex) == IF dex = "sushiswap" THEN "0xA" ELSE "0xB"

NoOpportunity == [found |-> FALSE]

\* The quote _handle_sync_event builds for one direction.
SyncQuote(dex, token_in, token_out, reserve_in, reserve_out, block_number) ==
    [dex |-> dex, token_in |-> token_in, token_out |-> token_out,
     amount_in |-> SyncAmountIn,
     amount_out |-> calculate_output_amount(SyncAmountIn, reserve_in, reserve_out),
     gas_estimate |-> SwapGas,
     pool_address |-> PoolOf(dex),
     timestamp |-> block_number, block_number |-> block_number]

\* _handle_sync_event: the quotes of both directions go to the price book.
HandleSyncEvent(dex, reserves, block_number) ==
    /\ reserves[1] > 0 /\ reserves[2] > 0
    /\ LET quote_0_1 == SyncQuote(dex, "WETH", "USDC", reserves[1], reserves[2], block_number)
           quote_1_0 == SyncQuote(dex, "USDC", "WETH", reserves[2], reserves[1], block_number)
           quote_key == <<dex, PoolOf(dex)>>
       IN  /\ price_book' = update_price_book(
                                update_price_book(price_book, "WETH", "USDC", quote_0_1),
                                "USDC", "WETH", quote_1_0)
           /\ quote_cache' = Put(Put(quote_cache, <<<<"WETH", "USDC">>, quote_key>>, quote_0_1),
                                 <<<<"USDC", "WETH">>, quote_key>>, quote_1_0)
           /\ delivered' = delivered \cup
                              {[store |-> "price_book", key |-> quote_key,
                                stamp |-> block_number]}
    /\ UNCHANGED <<opportunities_found, last_scan>>
    /\ UNCHANGED dexVars
    /\ UNCHANGED <<orchVars, adomVars, mevVars, rbfVars, calcVars, swapVars, healthVars, engVars, cfgVars, startVars, adomLoopVars, cowVars, cowArbVars>>

\* q.rate < r.rate, for rate = amount_out / amount_in.
RateLt(q, r) == q.amount_out * r.amount_in < r.amount_out * q.amount_in

\* The quote keys f"{dex}-{pool_address}" in the order of the SortedDict.
KeyBefore(k, l) ==
    \/ k[1] = "sushiswap" /\ l[1] = "uniswap_v2"
    \/ k[1] = l[1] /\ k[2] = "0xA" /\ l[2] = "0xB"

\* sorted(quotes.values(), key=rate)[0]: the first of the lowest-rate
\* quotes, by key.
BestBuy(quotes) ==
    quotes[CHOOSE k \in DOMAIN quotes :
              \A l \in DOMAIN quotes \ {k} :
                  \/ RateLt(quotes[k], quotes[l])
                  \/ ~RateLt(quotes[l], quotes[k]) /\ KeyBefore(k, l)]

\* sorted(quotes.values(), key=rate)[-1]: the last of the highest-rate
\* quotes, by key.
BestSell(quotes) ==
    quotes[CHOOSE k \in DOMAIN quotes :
              \A l \in DOMAIN quotes \ {k} :
                  \/ RateLt(quotes[l], quotes[k])
                  \/ ~RateLt(quotes[k], quotes[l]) /\ KeyBefore(l, k)]

\* The amounts of _calculate_arbitrage_profit: buy on the first quote, sell
\* on the second, gas of both swaps.
RoundTrip(buy_quote, sell_quote) ==
    LET amount_in == TradeAmount
        amount_received == (amount_in * buy_quote.amount_out) \div buy_quote.amount_in
        amount_back == (amount_received * sell_quote.amount_out) \div sell_quote.amount_in
        gross_profit == amount_back - amount_in
        gas_cost == (buy_quote.gas_estimate + sell_quote.gas_estimate) * ScanGasPrice
    IN  [gross_profit |-> gross_profit, gas_cost |-> gas_cost,
         net_profit |-> gross_profit - gas_cost]

\* _calculate_arbitrage_profit(buy_quote, sell_quote): the opportunity, or
\* NoOpportunity for None.
calculate_arbitrage_profit(buy_quote, sell_quote) ==
    LET trip == RoundTrip(buy_quote, sell_quote)
    IN  IF \/ buy_quote.token_in # sell_quote.token_out
           \/ buy_quote.token_out # sell_quote.token_in
        THEN NoOpportunity
        ELSE IF trip.gross_profit <= 0 THEN NoOpportunity
        ELSE IF trip.net_profit <= 0 THEN NoOpportunity
        ELSE [found |-> TRUE, buy_quote |-> buy_quote, sell_quote |-> sell_quote,
              profit_wei |-> trip.gross_profit, gas_cost_wei |-> trip.gas_cost,
              net_profit_wei |-> trip.net_profit]

\* The pairs of the book for which the scan computes a profit: at least two
\* quotes, the lowest-rate and highest-rate ones of different DEXs.
ScannedPairs(book) ==
    {pair_key \in DOMAIN book :
        /\ Cardinality(DOMAIN book[pair_key]) >= 2
        /\ BestBuy(book[pair_key]).dex # BestSell(book[pair_key]).dex}

\* The opportunities list of one pass of the scan, as a set.
ScanOpportunities(book) ==
    {opportunity \in
        {calculate_arbitrage_profit(BestBuy(book[pair_key]), BestSell(book[pair_key])) :
            pair_key \in ScannedPairs(book)} :
        opportunity.found /\ opportunity.net_profit_wei > ScanMinProfit}

\* One pass of _scan_arbitrage_opportunities: the opportunities are counted
\* and the one of highest net profit goes to _execute_arbitrage.
ScanArbitrageOpportunities ==
    /\ opportunities_found < MaxOpportunitiesFound
    /\ LET opportunities == ScanOpportunities(price_book)
           best == {o \in opportunities :
                       \A p \in opportunities : p.net_profit_wei <= o.net_profit_wei}
       IN  /\ opportunities_found' = opportunities_found + Cardinality(opportunities)
           /\ IF opportunities = {}
              THEN last_scan' = [done |-> TRUE, book |-> price_book,
                                 executed |-> NoOpportunity]
              ELSE \E o \in best :
                       last_scan' = [done |-> TRUE, book |-> price_book, executed |-> o]
    /\ UNCHANGED bookVars
    /\ UNCHANGED <<orchVars, adomVars, mevVars, rbfVars, calcVars, swapVars, dexVars, healthVars, engVars, cfgVars, startVars, adomLoopVars, cowVars, cowArbVars>>

InitArbScan ==
    /\ opportunities_found = 0
    /\ last_scan = [done |-> FALSE, book |-> EmptyDict, executed |-> NoOpportunity]

FirstStartTime == CHOOSE t \in StartTimes : \A u \in StartTimes : t <= u

Init ==
    /\ InitOrchestrator
    /\ InitMEV(FirstStartTime)
    /\ InitRBF
    /\ InitDexMonitor
    /\ InitPriceBook
    /\ InitHealth
    /\ InitEngine
    /\ InitConfig
    /\ InitStartup
    /\ InitAdomLoop
    /\ InitCow
    /\ InitCowArb
    /\ InitArbScan
    /\ InitCalculator(DefaultCalculatorConfig)
    /\ InitSwapPool(1, 1, DecZero, "uniswap_v2")

\* MEVProtection constructed at any of the start times.
InitAnyTime ==
    /\ InitOrchestrator
    /\ \E t \in StartTimes : InitMEV(t)
    /\ InitRBF
    /\ InitDexMonitor
    /\ InitPriceBook
    /\ InitHealth
    /\ InitEngine
    /\ InitConfig
    /\ InitStartup
    /\ InitAdomLoop
    /\ InitCow
    /\ InitCowArb
    /\ InitArbScan
    /\ InitCalculator(DefaultCalculatorConfig)
    /\ InitSwapPool(1, 1, DecZero, "uniswap_v2")

Next ==
    \/ \E opps \in DetectionLists : RunCoordinationCycle(opps, MaxCycles)
    \/ StartExecution
    \/ \E task \in BagToSet(running), ok \in BOOLEAN : SimulationReturns(task, ok)
    \/ \E task \in BagToSet(running) : SubmitBundle(task)
    \/ \E task \in BagToSet(running) : BeginInclusionCheck(task)
    \/ \E task \in BagToSet(running), inc \in BOOLEAN : FinishInclusionCheck(task, inc)
    \/ Tick

Spec == Init /\ [][Next]_vars

\* The same orchestrator under scans that fill the execution queue.
NextQueue ==
    \/ \E opps \in QueueBatches : RunCoordinationCycle(opps, MaxQueueCycles)
    \/ StartExecution
    \/ \E task \in BagToSet(running), ok \in BOOLEAN, inc \in BOOLEAN :
          ExecutionReturns(task, ok, inc)

SpecQueue == Init /\ [][NextQueue]_vars

\* MEVProtection: the service, its monitor task and the trades' waits.
NextMEV ==
    \/ MEVStart
    \/ MEVStop
    \/ MonitorBundles
    \/ \E c \in CallIds : ExecuteProtectedTrade(c)
    \/ \E c \in CallIds : SubmitReturns(c)
    \/ \E c \in CallIds, included \in BOOLEAN : StatusChecked(c, included)
    \/ \E c \in CallIds : WaitLoopWakes(c)
    \/ AdvanceClock

SpecMEV == InitAnyTime /\ [][NextMEV]_vars

\* MEVProtection with a bundle history that is nearly full.
InitArchive ==
    /\ InitOrchestrator
    /\ InitMEVAfterTrades(FirstStartTime)
    /\ InitRBF
    /\ InitDexMonitor
    /\ InitPriceBook
    /\ InitHealth
    /\ InitEngine
    /\ InitConfig
    /\ InitStartup
    /\ InitAdomLoop
    /\ InitCow
    /\ InitCowArb
    /\ InitArbScan
    /\ InitCalculator(DefaultCalculatorConfig)
    /\ InitSwapPool(1, 1, DecZero, "uniswap_v2")

SpecArchive == InitArchive /\ [][NextMEV]_vars

\* One execute_protected_trade call beside the service and its monitor. The
\* event loop runs every task that is due and time passes: each step is
\* taken if it stays possible.
NextWait ==
    \/ MEVStart
    \/ MEVStop
    \/ MonitorBundles
    \/ ExecuteProtectedTrade(1)
    \/ SubmitReturns(1)
    \/ \E included \in BOOLEAN : StatusChecked(1, included)
    \/ WaitLoopWakes(1)
    \/ AdvanceClock

FairWait ==
    /\ WF_vars(MonitorBundles)
    /\ WF_vars(SubmitReturns(1))
    /\ WF_vars(\E included \in BOOLEAN : StatusChecked(1, included))
    /\ WF_vars(WaitLoopWakes(1))
    /\ WF_vars(AdvanceClock)

SpecWait == InitAnyTime /\ [][NextWait]_vars /\ FairWait

\* One _submit_with_rbf call.
NextRBF ==
    \/ \E t \in Transactions : SubmitWithRbf(t)
    \/ \E outcome \in {"sign_error", "send_error", "sent"} : SendTransaction(outcome)
    \/ \E result \in {"confirmed", "reverted", "dropped", "pending"} :
          PollTransaction(result)
    \/ SleepEnds

SpecRBF == Init /\ [][NextRBF]_vars

\* AgentMEVCalculator constructed with any of the configurations.
InitScan ==
    /\ InitOrchestrator
    /\ InitMEV(FirstStartTime)
    /\ InitRBF
    /\ InitDexMonitor
    /\ InitPriceBook
    /\ InitHealth
    /\ InitEngine
    /\ InitConfig
    /\ InitStartup
    /\ InitAdomLoop
    /\ InitCow
    /\ InitCowArb
    /\ InitArbScan
    /\ \E c \in CalculatorConfigs : InitCalculator(c)
    /\ InitSwapPool(1, 1, DecZero, "uniswap_v2")

\* Successive scans of one calculator.
NextScan ==
    \E d \in PoolsData, t \in ScanTimes : find_arbitrage_opportunities(d, t)

SpecScan == InitScan /\ [][NextScan]_vars

\* Scans whose input holds drained pools (a reserve of 0) next to funded ones.
DrainedPoolChoices ==
    {PoolState("WETH_USDC_uniswap", 1, 11, DecZero, 60),
     PoolState("WETH_USDC_uniswap", 0, 0, DecZero, 60),
     PoolState("WETH_USDC_sushiswap", 2, 24, DecZero, 60),
     PoolState("WETH_USDC_sushiswap", 0, 15, DecZero, 60),
     PoolState("WETH_USDC_curve", 2, 24, DecZero, 30),
     PoolState("WETH_USDC_curve", 2, 0, DecZero, 60)}

DrainedPoolsData ==
    UNION {{d \in [1..n -> DrainedPoolChoices] :
               \A i, j \in 1..n : i # j => d[i].id # d[j].id} : n \in ScanSizes}

NextDrained ==
    \E d \in DrainedPoolsData, t \in ScanTimes : find_arbitrage_opportunities(d, t)

SpecDrained == InitScan /\ [][NextDrained]_vars

\* The swap functions on any of the pools.
InitSwap ==
    /\ InitOrchestrator
    /\ InitMEV(FirstStartTime)
    /\ InitRBF
    /\ InitDexMonitor
    /\ InitPriceBook
    /\ InitHealth
    /\ InitEngine
    /\ InitConfig
    /\ InitStartup
    /\ InitAdomLoop
    /\ InitCow
    /\ InitCowArb
    /\ InitArbScan
    /\ InitCalculator(DefaultCalculatorConfig)
    /\ \E ri \in SwapReserves, ro \in SwapReserves, f \in SwapFees, pt \in PoolTypes :
          InitSwapPool(ri, ro, f, pt)

NextSwap ==
    \E a \in SwapAmounts : QuoteSwap(a)

SpecSwap == InitSwap /\ [][NextSwap]_vars

\* DEXMonitor: its tasks, stop and restart, and callers of get_latest_prices.
NextDex ==
    \/ DexStart
    \/ DexStop
    \/ \E d \in Dexes : MonitorLoopHead(d)
    \/ \E d \in Dexes : FetchReturns(d)
    \/ AggregatePrices
    \/ GetLatestPrices
    \/ AdvanceDexTime

SpecDex == Init /\ [][NextDex]_vars

\* Feeds delivering updates of any age, in any order, with repetitions.
NextFeed ==
    \/ \E d \in Dexes : \E p \in {PairsOf(d)[i] : i \in 1..Len(PairsOf(d))} :
          \E t \in FeedTimestamps : DeliverPrice(d, p, t)
    \/ \E d \in Dexes, a \in PoolAddresses, b \in FeedBlocks :
          DeliverQuote(PriceQuote(d, a, b))

SpecFeed == Init /\ [][NextFeed]_vars

\* The agents' reports and the health monitor of the orchestrator.
NextHealth ==
    \/ \E a \in Agents, s \in {"active", "idle"}, e \in BOOLEAN : AgentReports(a, s, e)
    \/ MonitorAgentHealth
    \/ \E d \in HealthDelays : HealthTimePasses(d)

SpecHealth == Init /\ [][NextHealth]_vars

\* ArbitrageEngine: its loop, the trade tasks and a stop() call.
NextEngine ==
    \/ EngineStart
    \/ \E n \in 0..MaxTrades : LoopScans(n)
    \/ GatherReturns
    \/ \E t \in TradeIds : TradeStarts(t)
    \/ \E t \in TradeIds : TradeResumes(t)
    \/ \E t \in TradeIds, success \in BOOLEAN : TradeFinishes(t, success)
    \/ EngineStop
    \/ StopPolls
    \/ EngineTick

SpecEngine == Init /\ [][NextEngine]_vars



\* ConfigManager: construction and updates.
NextConfig ==
    \/ \E n \in NetworkSections, t \in TradingSections : ConfigConstruct(n, t)
    \/ \E n \in NetworkSections, t \in TradingSections : UpdateConfig(n, t)

SpecConfig == Init /\ [][NextConfig]_vars

\* The engine with its components: start(), the tasks of the price monitor
\* and stop(). The event loop runs every task that is due and time passes;
\* when start() and stop() are called is up to the caller.
NextStartup ==
    \/ DexStartedBeforeEngine
    \/ EngineStartCalled
    \/ DexStartReturns
    \/ LoopWakes
    \/ EngineStopCalled
    \/ StopResumes
    \/ \E d \in Dexes : MonitorLoopHead(d)
    \/ \E d \in Dexes : FetchReturns(d)
    \/ AggregatePrices
    \/ AdvanceDexTime

FairStartup ==
    /\ WF_vars(DexStartReturns)
    /\ WF_vars(LoopWakes)
    /\ WF_vars(StopResumes)
    /\ WF_vars(\E d \in Dexes : MonitorLoopHead(d))
    /\ WF_vars(\E d \in Dexes : FetchReturns(d))
    /\ WF_vars(AggregatePrices)
    /\ WF_vars(AdvanceDexTime)

SpecStartup == Init /\ [][NextStartup]_vars /\ FairStartup

\* ADOMFlashbotsIntegration: direct calls and the monitoring loop.
NextAdom ==
    \/ \E c \in AdomCallIds, k \in Kinds : ExecuteMevOpportunity(c, k)
    \/ \E c \in AdomCallIds, simSuccess \in BOOLEAN : SimulateBundleReturns(c, simSuccess)
    \/ \E c \in AdomCallIds : SubmitBundleToFlashbots(c)
    \/ \E c \in AdomCallIds : CheckBundleInclusion(c)
    \/ \E c \in AdomCallIds, was_included \in BOOLEAN : InclusionCheckReturns(c, was_included)
    \/ MonitoringPass
    \/ \E was_included \in BOOLEAN : MonitoringCheckReturns(was_included)

SpecAdom == Init /\ [][NextAdom]_vars

\* CoWIntegration: orders, the API, _monitor_orders and cancel_order calls.
NextCow ==
    \/ \E o \in OrderIds : CreateArbitrageOrder(o)
    \/ \E o \in OrderIds, status \in {"filled", "expired"} : OrderSettles(o, status)
    \/ MonitorOrdersPass
    \/ StatusRequestServed
    \/ StatusReturns
    \/ \E o \in OrderIds : CancelOrder(o)
    \/ \E o \in OrderIds : CancelRequestServed(o)
    \/ \E o \in OrderIds : CancelReturns(o)

SpecCow == Init /\ [][NextCow]_vars

\* ATOMCoWIntegration: the cycles of _monitor_open_orders.
NextCowArb ==
    \/ \E listed \in SUBSET CowOrderBook : OpenOrdersFetched(listed)
    \/ \E external_output \in ExternalOutputs : ArbitrageChecked(external_output)

SpecCowArb == Init /\ [][NextCowArb]_vars

\* ATOMDexMonitor: Sync events of the pools and passes of the scan.
NextArbScan ==
    \/ \E d \in SyncDexes, r \in SyncReserves, b \in SyncBlocks : HandleSyncEvent(d, r, b)
    \/ ScanArbitrageOpportunities

SpecArbScan == Init /\ [][NextArbScan]_vars

-----------------------------------------------------------------------------
(* Properties                                                              *)

\* Executions spawned by create_task and not yet completed.
InFlight == Len(ready) + BagCardinality(running)

IsCycleStep == coordination_cycles' = coordination_cycles + 1

\* C1: the number of coordinate_opportunity_execution tasks spawned and not
\* yet completed never exceeds max_concurrent_executions.
C1_InFlightBounded == InFlight <= max_concurrent_executions

\* C2: once a FlashbotsBundle's status is 'included' or 'failed', no step of
\* the inclusion wait, of the monitor loop or of the archiving changes it.
C2_TerminalStatusIsFinal ==
    [][\A b \in CallIds :
          bundles[b].status \in {"included", "failed"}
             => bundles'[b].status = bundles[b].status]_vars

\* C2 witness: a bundle reached a terminal status, its wait returned, and
\* the monitor archived it into bundle_history afterwards.
C2_Witness ==
    \E b \in CallIds :
       /\ bundles[b].status \in {"included", "failed"}
       /\ mev_calls[b].pc = "returned"
       /\ b \in SeqRange(bundle_history)
       /\ clock >= MonitorIntervalMs

\* C3: once bundle_results records a bundle hash as included, no later step
\* changes the recorded result for that hash.
C3_IncludedIsFinal ==
    [][\A h \in Kinds : bundle_results[h] = "included" => bundle_results'[h] = "included"]_vars

\* C4: an execution whose simulation failed never reaches submission: it
\* ends as a failure at stage 'simulation', and the step that ends it leaves
\* submitted_bundles and bundles_submitted unchanged.
C4_FailedSimulationNotSubmitted ==
    /\ [](\A task \in BagToSet(running) :
             task.pc \in {"submitting", "waiting", "checking"} => task.sim # "failed")
    /\ [][(processed' = processed + 1 /\ last_result'.sim = "failed")
            => /\ last_result'.stage = "simulation"
               /\ ~last_result'.success
               /\ submitted_bundles' = submitted_bundles
               /\ bundles_submitted' = bundles_submitted]_vars

\* C4 witness: a simulation failed while another execution's bundle is
\* already submitted.
C4_Witness ==
    /\ last_result.sim = "failed"
    /\ last_result.stage = "simulation"
    /\ bundles_submitted > 0

\* C5: a bundle whose wait ended without an inclusion confirmation (target
\* block window elapsed, or timeout) does not end with status 'failed'.
C5_LostRaceIsNotFailed ==
    \A b \in CallIds :
       mev_calls[b].outcome \in {"missed_target_block", "timed_out"}
          => bundles[b].status # "failed"

\* C6: _submit_with_rbf sends at most max_rbf_attempts times, attempts never
\* exceeds max_rbf_attempts, and the call returns None exactly when it ends
\* without a confirmed receipt.
C6_AtMostMaxAttempts ==
    /\ Len(sendLog) <= max_rbf_attempts
    /\ attempts <= max_rbf_attempts
    /\ Len(sendLog) <= attempts + 1
    /\ (rbf_pc = "returned" =>
          /\ rbf_result \in {"receipt", "None"}
          /\ (rbf_result = "None" <=> confirmed_txs = {})
          /\ (rbf_result = "None" => attempts = max_rbf_attempts))

\* C6 witness: the call returned None after max_rbf_attempts sends, one of
\* which raised.
C6_Witness ==
    /\ rbf_pc = "returned"
    /\ rbf_result = "None"
    /\ Len(sendLog) = max_rbf_attempts
    /\ \E i \in 1..Len(sendLog) : sendLog[i].raised
    /\ \E i \in 1..Len(sendLog) : ~sendLog[i].raised

\* C7: every send after the first carries a gas price strictly above the
\* price of the send before it.
C7_GasPriceStrictlyIncreases ==
    \A i \in 2..Len(sendLog) : sendLog[i].gas_price > sendLog[i - 1].gas_price

\* C8: after a send_raw_transaction that raised, no further send is made.
C8_NoResendAfterSubmissionFailure ==
    \A i \in 1..Len(sendLog) : sendLog[i].raised => i = Len(sendLog)

\* C11: len(active_executions) equals the number of executions started and
\* not yet completed, so each completion removes exactly one entry.
C11_ActiveMatchesRunning == Len(active_executions) = BagCardinality(running)

\* C9: execution tasks are spawned in the order their opportunities were
\* enqueued: spawn order follows ticket order, and nothing still queued (or
\* created and waiting to start) is older than something spawned later.
C9_SpawnOrderIsQueueOrder ==
    /\ \A i, j \in 1..Len(spawnLog) : i < j => spawnLog[i] < spawnLog[j]
    /\ \A i, j \in 1..Len(execution_queue) :
          i < j => execution_queue[i].ticket < execution_queue[j].ticket
    /\ \A i \in 1..Len(execution_queue), j \in 1..Len(spawnLog) :
          spawnLog[j] < execution_queue[i].ticket
    /\ \A i, j \in 1..Len(ready) : i < j => ready[i].ticket < ready[j].ticket

\* C9 witness: one cycle spawned more tasks than a scan returns, so some of
\* them had waited in the queue since an earlier cycle.
C9_Witness == Len(ready) > MaxBatch

\* C10: the queue never holds more than 10 entries, and step 2 of a cycle
\* only appends: the entries queued before the cycle stay, in order, at the
\* front of the queue as it stands after step 2 (ready' \o execution_queue'
\* once step 3 has taken its tasks from the front), a full queue is left as
\* it was, and opportunities are dropped only at a full queue.
C10_QueueBounded ==
    /\ [](Len(execution_queue) <= QueueLimit)
    /\ [][IsCycleStep =>
            LET mid == ready' \o execution_queue'
            IN  /\ Len(mid) <= QueueLimit
                /\ Len(mid) >= Len(execution_queue)
                /\ SubSeq(mid, 1, Len(execution_queue)) = execution_queue
                /\ (Len(execution_queue) = QueueLimit => mid = execution_queue)
                /\ (dropped' > 0 => Len(mid) = QueueLimit)]_vars

\* C10 witness: a cycle dropped an opportunity at a full queue and the queue
\* is still full.
C10_Witness == dropped > 0 /\ Len(execution_queue) = QueueLimit

-----------------------------------------------------------------------------
(* Properties of AgentMEVCalculator                                        *)

\* The opportunities the last scan returned.
Returned == {opportunities_cache[i] : i \in 1..Len(opportunities_cache)}

\* The pairs the last scan evaluated.
Evaluated == {optimal_inputs[k] : k \in 1..Len(optimal_inputs)}

PriceOf(pool) == DecDiv(pool.reserve_out, pool.reserve_in)

\* The simulation the last scan ran for an evaluated pair.
SimulationOf(e) ==
    simulate_arbitrage(e.pool_a, e.pool_b, e.optimal_input, slippage_tolerance)

\* C12: every opportunity find_arbitrage_opportunities returns has a
\* net_profit (gross profit minus gas cost) strictly greater than
\* min_profit_threshold.
C12_NetProfitAboveThreshold ==
    \A o \in Returned :
        /\ o.net_profit = DecSub(o.expected_profit, GasCost)
        /\ DecLt(min_profit_threshold, o.net_profit)

\* A scan that returned an opportunity and left out a pair whose simulation
\* succeeded with a net profit equal to the threshold.
C12_Witness ==
    /\ Returned # {}
    /\ \E e \in Evaluated :
          /\ DecLt(DecZero, e.optimal_input)
          /\ SimulationOf(e).success
          /\ SimulationOf(e).net_profit = min_profit_threshold

\* Position of a pool id in pool_states (dict insertion order).
PositionOf(id) == CHOOSE i \in 1..Len(pool_states) : pool_states[i].id = id

\* o1 comes before o2 in the order the pair loop visits the pools.
VisitedBefore(o1, o2) ==
    \/ PositionOf(o1.pool_a_id) < PositionOf(o2.pool_a_id)
    \/ /\ o1.pool_a_id = o2.pool_a_id
       /\ PositionOf(o1.pool_b_id) < PositionOf(o2.pool_b_id)

\* C14: the list find_arbitrage_opportunities returns is sorted by net_profit
\* descending; opportunities with equal net_profit are ordered by
\* confidence_score, higher first, and then by pool insertion order.
C14_SortedByProfitThenConfidence ==
    \A i, j \in 1..Len(opportunities_cache) :
        i < j =>
            LET o1 == opportunities_cache[i]
                o2 == opportunities_cache[j]
            IN  \/ DecLt(o2.net_profit, o1.net_profit)
                \/ /\ o1.net_profit = o2.net_profit
                   /\ \/ DecLt(o2.confidence_score, o1.confidence_score)
                      \/ /\ o1.confidence_score = o2.confidence_score
                         /\ VisitedBefore(o1, o2)

\* C15: the result of a scan is the one a new calculator gives for the same
\* pools_data, and every opportunity is between pools of that pools_data.
C15_ResultIndependentOfHistory ==
    pools_data # <<>> =>
        /\ opportunities_cache =
               SortByNetProfit(<<>>,
                   Appended(Evaluations(UpdatePoolStates(<<>>, pools_data),
                                        min_profit_threshold, slippage_tolerance,
                                        scan_time)))
        /\ \A o \in Returned :
               {o.pool_a_id, o.pool_b_id} \subseteq
                   {pools_data[i].id : i \in 1..Len(pools_data)}

\* C16: every returned opportunity has slippage_a and slippage_b at most
\* slippage_tolerance; with a tolerance of 0 no opportunity with
\* optimal_input > 0 is returned.
C16_SlippageWithinTolerance ==
    /\ \A o \in Returned :
          /\ DecLe(o.slippage_a, slippage_tolerance)
          /\ DecLe(o.slippage_b, slippage_tolerance)
    /\ slippage_tolerance = DecZero =>
          \A o \in Returned : ~DecLt(DecZero, o.optimal_input)

\* An opportunity returned with positive slippage on both legs, within a
\* positive tolerance.
C16_Witness ==
    \E o \in Returned :
        /\ DecLt(DecZero, o.slippage_a)
        /\ DecLt(DecZero, o.slippage_b)
        /\ DecLe(o.slippage_a, slippage_tolerance)
        /\ DecLe(o.slippage_b, slippage_tolerance)

\* C19: calculate_optimal_input returns 0 whenever price_b <= price_a.
C19_NoInputWithoutPriceGap ==
    \A e \in Evaluated :
        DecLe(PriceOf(e.pool_b), PriceOf(e.pool_a)) => e.optimal_input = DecZero

\* A scan that evaluated a pair with equal prices and a pair with
\* price_b < price_a, both with optimal input 0.
C19_Witness ==
    /\ \E e \in Evaluated :
          PriceOf(e.pool_b) = PriceOf(e.pool_a) /\ e.optimal_input = DecZero
    /\ \E e \in Evaluated :
          DecLt(PriceOf(e.pool_b), PriceOf(e.pool_a)) /\ e.optimal_input = DecZero

\* C20: calculate_optimal_input never returns more than 10% of the smaller
\* of the two pools' reserve_in.
C20_InputAtMostTenthOfSmallerReserve ==
    \A e \in Evaluated :
        /\ DecLe(DecMul(e.optimal_input, Dec(10, 1)), e.pool_a.reserve_in)
        /\ DecLe(DecMul(e.optimal_input, Dec(10, 1)), e.pool_b.reserve_in)

\* A scan with a pair capped by pool_b's smaller reserve_in and a pair whose
\* optimal input is positive and below the cap.
C20_Witness ==
    /\ \E e \in Evaluated :
          /\ DecLt(e.pool_b.reserve_in, e.pool_a.reserve_in)
          /\ DecMul(e.optimal_input, Dec(10, 1)) = e.pool_b.reserve_in
    /\ \E e \in Evaluated :
          /\ DecLt(DecZero, e.optimal_input)
          /\ DecLt(DecMul(e.optimal_input, Dec(10, 1)), e.pool_a.reserve_in)
          /\ DecLt(DecMul(e.optimal_input, Dec(10, 1)), e.pool_b.reserve_in)

-----------------------------------------------------------------------------
(* Properties of the swap output functions                                 *)

\* The pool under test has positive reserves (its fee is in [0, 1)).
ValidSwapPool == swap_pool.reserve_in > 0 /\ swap_pool.reserve_out > 0

\* C17: for amount_in > 0 and positive reserves the swap output is at least 0
\* and less than reserve_out, for calc_slippage's amount_out and for the
\* floor-division form of _calculate_output_amount and _calculate_pool_output.
C17_OutputBelowReserve ==
    ValidSwapPool =>
        \A q \in swap_quotes :
            /\ DecLe(DecZero, q.amount_out)
            /\ DecLt(q.amount_out, Dec(swap_pool.reserve_out, 1))
            /\ 0 <= q.output_amount
            /\ q.output_amount < swap_pool.reserve_out
            /\ swap_pool.pool_type = "uniswap_v2" =>
                   0 <= q.pool_output /\ q.pool_output < swap_pool.reserve_out

\* A swap on a constant-product pool with a fee that takes all of
\* reserve_out but one unit.
C17_Witness ==
    /\ ValidSwapPool
    /\ swap_pool.pool_type = "uniswap_v2"
    /\ DecLt(DecZero, swap_pool.fee_rate)
    /\ \E q \in swap_quotes :
          /\ q.output_amount = swap_pool.reserve_out - 1
          /\ q.pool_output = swap_pool.reserve_out - 1
          /\ q.output_amount > 0
          /\ DecLt(DecZero, q.amount_out)

\* C18 as stated: for fixed positive reserves and fee the swap output is
\* strictly increasing in amount_in, for calc_slippage's amount_out and for
\* the integer _calculate_output_amount.
C18_OutputStrictlyIncreasing ==
    ValidSwapPool =>
        \A p, q \in swap_quotes :
            p.amount_in < q.amount_in =>
                /\ DecLt(p.amount_out, q.amount_out)
                /\ p.output_amount < q.output_amount

\* C18 amended: for fixed positive reserves and fee, calc_slippage's
\* amount_out is strictly increasing in amount_in and the integer
\* _calculate_output_amount is non-decreasing in amount_in.
C18_OutputNonDecreasing ==
    ValidSwapPool =>
        \A p, q \in swap_quotes :
            p.amount_in < q.amount_in =>
                /\ DecLt(p.amount_out, q.amount_out)
                /\ p.output_amount <= q.output_amount

\* Three amounts on one pool: the integer output repeats for the first two
\* and grows for the third.
C18_Witness ==
    /\ ValidSwapPool
    /\ \E p, q, r \in swap_quotes :
          /\ p.amount_in < q.amount_in
          /\ q.amount_in < r.amount_in
          /\ p.output_amount = q.output_amount
          /\ q.output_amount < r.output_amount

-----------------------------------------------------------------------------
(* Drained pools in AgentMEVCalculator                                     *)

\* A pool with reserve_in = 0 or reserve_out = 0.
IsDrained(pool) == pool.reserve_in = DecZero \/ pool.reserve_out = DecZero

\* The pool pool_states holds for a pool id.
PoolOfId(id) == pool_states[PositionOf(id)]

\* C21: a pool with reserve_in = 0 or reserve_out = 0 is never a leg of a
\* returned opportunity; calculate_optimal_input gives 0 for every pair with
\* such a pool and calc_slippage gives (0, 1) on it, in both directions.
C21_DrainedPoolsExcluded ==
    /\ \A o \in Returned :
          ~IsDrained(PoolOfId(o.pool_a_id)) /\ ~IsDrained(PoolOfId(o.pool_b_id))
    /\ \A e \in Evaluated :
          IsDrained(e.pool_a) \/ IsDrained(e.pool_b) => e.optimal_input = DecZero
    /\ \A i \in 1..Len(pool_states) :
          IsDrained(pool_states[i]) =>
              /\ calc_slippage(DecOne, pool_states[i].reserve_in,
                               pool_states[i].reserve_out, pool_states[i].fee_rate)
                    = <<DecZero, DecOne>>
              /\ calc_slippage(DecOne, pool_states[i].reserve_out,
                               pool_states[i].reserve_in, pool_states[i].fee_rate)
                    = <<DecZero, DecOne>>

\* A scan over a pool without reserve_out, a funded pool before it and a
\* funded pool after it, that returned the opportunity between the two
\* funded pools.
C21_Witness ==
    /\ Len(pool_states) = 3
    /\ ~IsDrained(pool_states[1])
    /\ pool_states[2].reserve_out = DecZero
    /\ pool_states[2].reserve_in # DecZero
    /\ ~IsDrained(pool_states[3])
    /\ Len(optimal_inputs) = 3
    /\ \E o \in Returned :
          o.pool_a_id = pool_states[1].id /\ o.pool_b_id = pool_states[3].id

-----------------------------------------------------------------------------
(* DEXMonitor snapshots                                                    *)

\* C22: get_latest_prices never returns a price entry older than the
\* staleness window of 30 s: no entry of a snapshot was stale at the time the
\* snapshot was taken.
C22_SnapshotHoldsNoStaleEntry ==
    snapshot.held =>
        \A dex \in DOMAIN snapshot.taken : \A pair \in DOMAIN snapshot.taken[dex] :
            ~IsStale(snapshot.taken[dex][pair], snapshot.time)

\* C23: a snapshot returned by get_latest_prices is not changed by later
\* feed updates or stale-entry removal: what is read through it stays what
\* it held when it was taken.
C23_SnapshotUnchangedAfterwards ==
    snapshot.held => SnapshotView = snapshot.taken

-----------------------------------------------------------------------------
(* Out-of-order and duplicate feed updates                                 *)

\* The greatest timestamp / block number delivered to a store for a key.
NewestDelivered(store, key) ==
    LET stamps == {u.stamp : u \in {v \in delivered : v.store = store /\ v.key = key}}
    IN  CHOOSE s \in stamps : \A t \in stamps : t <= s

\* C24: after feed updates for the same pool delivered in any order, with
\* duplicates, the entry the store holds for the pool is the update with the
\* greatest timestamp (price cache) or block number (price book).
C24_StoreHoldsNewestUpdate ==
    /\ \A dex \in DOMAIN price_cache : \A pair \in DOMAIN price_cache[dex] :
          price_cache[dex][pair].timestamp = NewestDelivered("price_cache", <<dex, pair>>)
    /\ \A pair_key \in DOMAIN price_book : \A quote_key \in DOMAIN price_book[pair_key] :
          price_book[pair_key][quote_key].block_number
              = NewestDelivered("price_book", quote_key)

-----------------------------------------------------------------------------
(* MEVProtection: pending bundles and the bundle history                   *)

InHistory(c) == \E i \in 1..Len(bundle_history) : bundle_history[i] = c

InPending(c) == \E i \in 1..Len(pending_bundles) : pending_bundles[i].bundle = c

\* The call is inside _wait_for_bundle_inclusion.
WaitInProgress(c) == mev_calls[c].pc \in {"checking", "sleeping"}

\* The bundles a step takes out of pending_bundles, in dict order.
TakenFromPending ==
    SelectSeq(pending_bundles,
              LAMBDA e : \A i \in 1..Len(pending_bundles') : pending_bundles'[i] # e)

\* The last n entries of a list.
Newest(s, n) == [i \in 1..n |-> s[Len(s) - n + i]]

\* C25: bundle_history never holds more than 100 bundles, and a step that
\* archives bundles leaves in it the most recently archived ones: the old
\* history followed by the newly archived bundles, cut from the old end.
C25_HistoryKeepsNewestHundred ==
    /\ [](Len(bundle_history) <= HistoryLimit)
    /\ [][bundle_history' # bundle_history =>
            LET moved == TakenFromPending
                archive == bundle_history \o [i \in 1..Len(moved) |-> moved[i].bundle]
            IN  bundle_history' =
                  Newest(archive,
                         IF Len(archive) < HistoryLimit THEN Len(archive) ELSE HistoryLimit)]_vars

\* The history is full, its oldest bundle was evicted and the two newest
\* entries are the bundles of the explored calls.
C25_Witness ==
    /\ Len(bundle_history) = HistoryLimit
    /\ bundle_history[1] # EarlierBundles[1]
    /\ bundle_history[HistoryLimit] \in CallIds
    /\ bundle_history[HistoryLimit - 1] \in CallIds
    /\ pending_bundles = <<>>

\* C26: a bundle moves from pending_bundles to bundle_history only after it
\* reached a terminal status: no bundle in bundle_history has status
\* 'pending', and a bundle whose inclusion wait is in progress is in
\* pending_bundles.
C26_ArchivedOnlyWhenTerminal ==
    \A c \in CallIds :
        /\ InHistory(c) => bundles[c].status # "pending"
        /\ WaitInProgress(c) => InPending(c)

-----------------------------------------------------------------------------
(* Health monitoring                                                       *)

\* C27: monitor_agent_health only observes: a call, whatever it warns
\* about, leaves every AgentStatus field as it was.
C27_HealthCheckOnlyObserves ==
    [][health_checks' # health_checks =>
          agent_statuses' = agent_statuses /\ last_activity' = last_activity]_vars

-----------------------------------------------------------------------------
(* ArbitrageEngine: stop and the concurrency limit                         *)

\* C28: when stop() has returned, every trade execution that was started
\* has finished and none is left to begin, the ones waiting for a slot
\* included.
C28_StopWaitsForAllTrades ==
    eng_stop = "returned" => \A t \in TradeIds : trades[t].pc \in {"none", "done"}

\* C29: the number of trades inside the semaphore section of
\* _execute_arbitrage and the size of active_trades never exceed
\* max_concurrent_trades.
C29_TradesWithinLimit ==
    /\ Cardinality(InTradeSection) <= max_concurrent_trades
    /\ Cardinality(active_trades) <= max_concurrent_trades

\* The section is full with trades under distinct ids and another trade is
\* queued for a slot.
C29_Witness ==
    /\ Cardinality(InTradeSection) = max_concurrent_trades
    /\ \E t \in TradeIds : trades[t].pc = "queued"
    /\ Cardinality(active_trades) > 1

-----------------------------------------------------------------------------
(* Termination of _wait_for_bundle_inclusion                               *)

\* _get_current_block at the last block test of a sleeping wait.
BlockAtLastTest(c) ==
    BlockBase + ((epoch + ((mev_calls[c].wake - PollDelayMs) \div 1000)) % BlockCycle)

\* C30: every _wait_for_bundle_inclusion call returns: it is not in
\* progress beyond the timeout plus one round of the loop, it does not sleep
\* once the chain is more than 2 blocks past the target, and when it has
\* returned the bundle's status is 'included' or 'failed'.
C30_WaitTerminates ==
    /\ WaitInProgress(1) ~> mev_calls[1].pc = "returned"
    /\ [](WaitInProgress(1) =>
            clock - mev_calls[1].start_time
               < inclusion_timeout * 1000 + StatusDelayMs + PollDelayMs)
    /\ [](mev_calls[1].pc = "sleeping" =>
            BlockAtLastTest(1) <= bundles[1].target_block + TargetBlockGrace)
    /\ [](mev_calls[1].pc = "returned" => bundles[1].status \in {"included", "failed"})

\* A wait that no inclusion and no block test ended returned on the timeout.
C30_Witness ==
    /\ mev_calls[1].pc = "returned"
    /\ mev_calls[1].outcome = "timed_out"
    /\ bundles[1].status = "failed"
    /\ clock - mev_calls[1].start_time >= inclusion_timeout * 1000

\* C31: the confidence score of every opportunity a scan returns (each one
\* built from a simulation with success = True) lies in [0, 1].
C31_ConfidenceWithinUnitInterval ==
    \A i \in 1..Len(opportunities_cache) :
        /\ DecLe(DecZero, opportunities_cache[i].confidence_score)
        /\ DecLe(opportunities_cache[i].confidence_score, DecOne)

-----------------------------------------------------------------------------
(* ConfigManager: the held configuration                                   *)

\* C32: a held configuration has positive trading.min_profit_wei and
\* trading.trade_amount_wei, and a call that raised left the configuration
\* as it was when the call began.
C32_HeldConfigIsValid ==
    /\ config.held =>
          /\ TradingKeys \subseteq DOMAIN config.trading
          /\ \A k \in TradingKeys : ToInt(config.trading[k]) > 0
    /\ config_raised => config = config_before

-----------------------------------------------------------------------------
(* ArbitrageEngine: start() and its components                             *)

\* find_opportunities can be called with what get_latest_prices returns.
PriceDataAvailable == DOMAIN price_cache # {}

\* While the engine that created the monitor's tasks is running, one of the
\* tasks start() waits for has not ended.
GatherPendingWhileRunning ==
    (eng_start = "dex_gather" /\ eng_is_running) =>
        /\ \E t \in TaskNames : dex_tasks[t].pc # "ended"
        /\ ~scanned

\* C33: once start() has been called and price data is available, the loop
\* performs a scan, unless the engine is stopped first.
C33_LoopEventuallyScans ==
    (eng_start # "none" /\ PriceDataAvailable) ~> (scanned \/ ~eng_is_running)

\* C34: when stop() has completed and start() has returned, no component
\* has is_running set.
C34_ComponentsStoppedAfterStop ==
    (eng_stop = "returned" /\ eng_start = "returned") =>
        /\ ~dex_is_running
        /\ ~pathfinding_is_running
        /\ ~mev_is_running

-----------------------------------------------------------------------------
(* ArbitrageEngine: active_trades                                          *)

\* The trades between active_trades.add and active_trades.discard.
Executing == {t \in TradeIds : trades[t].pc = "executing"}

\* C35: every executing trade's id is in active_trades, and active_trades
\* has as many entries as there are executing trades.
C35_ActiveTradesAreTheExecutingTrades ==
    /\ \A t \in Executing : trades[t].id \in active_trades
    /\ Cardinality(active_trades) = Cardinality(Executing)

-----------------------------------------------------------------------------
(* ADOMFlashbotsIntegration: the inclusion metrics                         *)

\* The submissions made under bundle hash h.
SubmissionsOf(h) ==
    Cardinality({c \in AdomCallIds :
                    adom_calls[c].submitted /\ BundleHashOf(adom_calls[c].kind) = h})

\* C36: bundles_included never exceeds bundles_submitted, and the
\* expected_profit of a bundle is added to total_profit at most once per
\* submission of that bundle.
C36_InclusionsWithinSubmissions ==
    /\ bundles_included <= bundles_submitted
    /\ \A h \in Kinds : adom_credits[h] <= SubmissionsOf(h)

-----------------------------------------------------------------------------
(* _submit_with_rbf: a mined transaction                                   *)

\* C37: a send for which a receipt was obtained (status 1 or reverted) is
\* the last send of the call.
C37_NoReplacementAfterReceipt ==
    \A i \in mined_sends : i = Len(sendLog)

\* An order is not in active_orders and order_history at once, and not in
\* order_history twice.
OrderTrackedOnce ==
    \A o \in OrderIds :
        /\ ~(o \in active_orders /\ o \in SeqRange(order_history))
        /\ Cardinality({i \in 1..Len(order_history) : order_history[i] = o}) <= 1

\* A step leaves a terminal status as it is.
TerminalStatusKept ==
    \A o \in OrderIds :
        order_status[o] \in TerminalStatuses => order_status'[o] = order_status[o]

\* C38: an order is never in active_orders and in order_history at once, it
\* is in order_history at most once, and its status does not change once it
\* is 'filled', 'cancelled' or 'expired'.
C38_OrderMovedOnceAndFinal == [][OrderTrackedOnce /\ TerminalStatusKept]_vars

\* C39: _execute_cow_arbitrage runs at most once for an order uid over the
\* cycles of _monitor_open_orders.
C39_ArbitrageOncePerOrder ==
    \A uid \in CowUids : cow_executions[uid] <= 1

\* The book holds, for some pair, lowest-rate and highest-rate quotes of two
\* different DEXs whose round trip minus gas exceeds min_profit_wei.
ProfitableSpread(book) ==
    \E pair_key \in ScannedPairs(book) :
        RoundTrip(BestBuy(book[pair_key]), BestSell(book[pair_key])).net_profit
            > ScanMinProfit

\* C40: when two DEXs hold quotes for a pair whose rates differ enough that
\* the round trip minus gas exceeds min_profit_wei, a pass of the scan hands
\* _execute_arbitrage an opportunity built from the lowest-rate and the
\* highest-rate quote of a pair.
C40_ScanExecutesProfitableSpread ==
    (last_scan.done /\ ProfitableSpread(last_scan.book)) =>
        /\ last_scan.executed.found
        /\ \E pair_key \in ScannedPairs(last_scan.book) :
               /\ last_scan.executed.buy_quote = BestBuy(last_scan.book[pair_key])
               /\ last_scan.executed.sell_quote = BestSell(last_scan.book[pair_key])

====
